---------------------------- MODULE Spec2Model ----------------------------
(***************************************************************************)
(* A model of the resume-parser comparison: the regex section extractors   *)
(* (src/regex_parser.py, src/app.py), the entity pipeline                  *)
(* (src/fixed_pyresparser.py) and the upload handlers (src/web_app.py).    *)
(*                                                                         *)
(* Text is a sequence of one-character strings; the string methods the     *)
(* code uses (split, strip, lower, in, startswith, isupper, ...) are       *)
(* operators on such sequences.                                            *)
(***************************************************************************)
EXTENDS Integers, Sequences, FiniteSets, TLC

VARIABLES
    text,       \* the raw text handed to a section extractor
    fn,         \* the section extractor being run ("none" before the call)
    lines,      \* lines = text.split('\n')
    idx,        \* 1-based position of the line the for loop visits next
    capture,    \* the extractor's capture flag
    section,    \* the extractor's *_section list
    ret,        \* the extractor's return value
    pc,         \* "idle" | "loop" | "after" | "returned"
    \* the total-experience heuristic of get_extracted_data
    exp_kw,             \* position in experience_keywords of the for loop
    exp_matches,        \* the exp_matches list
    total_experience,   \* extracted_data['total_experience'], or Absent
    totPc,              \* "idle" | "loop" | "after" | "done"
    \* one call of a pipeline (extract_resume_data, get_extracted_data)
    resume_path,        \* the path it is given
    resume_file,        \* what the file system holds at that path
    pipeline,           \* the pipeline called ("none" before the call)
    outcome,            \* what the call did: returned or raised, and printed
    \* the upload handlers of web_app.py, one request per element of Reqs
    route,      \* request -> "upload" (POST /upload) | "api" (POST /api/upload)
    request,    \* request -> its 'file' part: has_file, filename, body
    wpc,        \* request -> the statement its handler is at
    file_path,  \* request -> file_path
    results,    \* request -> the entries of results set so far
    response,   \* request -> the response returned (Unset before)
    flashes,    \* request -> the messages passed to flash()
    saved,      \* request -> file.save(file_path) has returned
    removal,    \* request -> "none" | "removed" | "failed": os.remove so far
    outer,      \* request -> the handler's outer except clause has run
    uploads,    \* the upload folder: path -> file
    model_ok,   \* spacy.load('en_core_web_sm') succeeds on this host
    \* the skills database of FixedResumeParser
    skills_file,    \* the skills_file argument of the constructor
    skills_csv,     \* what the file system holds at that path
    skills_db,      \* self.skills_db (Unset before the load)
    \* the name extractors
    persons,    \* the lines of text the entity recognizer labels PERSON
    name_ret,   \* name extractor -> what it returned (Unset before)
    \* the entity pipeline's skills and experience
    ner,            \* what the entity recognizer finds: "orgs" | "nothing"
    sent_mode,      \* how doc.sents splits the text: "lines" | "whole"
    epc,            \* "idle" | "skills" | "experience": the field built last
    ent_skills,     \* what _extract_skills_with_spacy returned
    ent_experience, \* what _extract_experience_with_spacy returned
    \* a run of app.py or fixed_pyresparser.py from the command line
    prog,           \* "app" | "fixed"
    argv,           \* sys.argv[1], None when there is no argument
    cwd_files,      \* the names that exist in the working directory
    content,        \* what every one of these files holds
    cpc,            \* the statement the run is at
    cli_path,       \* resume_path
    cli_data,       \* data
    stdout,         \* the lines printed
    exit_status     \* the exit status (Unset while running)

segVars == <<fn, lines, idx, capture, section, ret, pc>>
totVars == <<exp_kw, exp_matches, total_experience, totPc>>
pipeVars == <<resume_path, resume_file, pipeline, outcome>>
webVars == <<route, request, wpc, file_path, results, response, flashes,
             saved, removal, outer, uploads, model_ok>>

dbVars == <<skills_file, skills_csv, skills_db>>

nameVars == <<persons, name_ret>>

entVars == <<ner, sent_mode, epc, ent_skills, ent_experience>>

cliVars == <<prog, argv, cwd_files, content, cpc, cli_path, cli_data, stdout,
             exit_status>>

vars == <<text, segVars, totVars, pipeVars, webVars, dbVars, nameVars, entVars,
          cliVars>>

\* what the steps of one part of the program leave alone
nonSegVars == <<totVars, pipeVars, webVars, dbVars, nameVars, entVars,
    cliVars>>
nonTotVars == <<segVars, pipeVars, webVars, dbVars, nameVars, entVars,
    cliVars>>
nonPipeVars == <<text, segVars, totVars, webVars, dbVars, nameVars, entVars,
    cliVars>>
nonWebVars == <<text, segVars, totVars, pipeVars, dbVars, nameVars, entVars,
    cliVars>>
nonDbVars == <<text, segVars, totVars, pipeVars, webVars, nameVars, entVars,
    cliVars>>
nonNameVars == <<segVars, totVars, pipeVars, webVars, dbVars, entVars,
    cliVars>>
nonEntVars == <<segVars, totVars, pipeVars, webVars, dbVars, nameVars, cliVars>>
\* the command-line runs leave model_ok alone too
nonCliVars == <<text, segVars, totVars, pipeVars, route, request, wpc, file_path,
                results, response, flashes, saved, removal, outer, uploads,
                model_ok, dbVars, nameVars, entVars>>

-----------------------------------------------------------------------------
(* Python values                                                           *)

Unset == [tag |-> "unset", items |-> <<>>]
\* a key that the dict does not hold
Absent == [tag |-> "absent", items |-> <<>>]
Str(s) == [tag |-> "str", items |-> s]
None == [tag |-> "None", items |-> <<>>]
List(l) == [tag |-> "list", items |-> l]

Min(a, b) == IF a < b THEN a ELSE b

\* l[:n] for n >= 0
Take(l, n) == SubSeq(l, 1, Min(n, Len(l)))

-----------------------------------------------------------------------------
(* The state before anything has run                                       *)

\* no extractor has been called
SegStart ==
    /\ fn = "none"
    /\ lines = <<>>
    /\ idx = 0
    /\ capture = FALSE
    /\ section = <<>>
    /\ ret = Unset
    /\ pc = "idle"

\* the heuristic has not run
TotStart ==
    /\ exp_kw = 0
    /\ exp_matches = <<>>
    /\ total_experience = Absent
    /\ totPc = "idle"

\* no pipeline has been called
PipeStart ==
    /\ pipeline = "none"
    /\ outcome = Unset

\* the requests the web application serves at once
Reqs == {1, 2}

\* no request has been handled
WebStart ==
    /\ wpc = [r \in Reqs |-> "start"]
    /\ file_path = [r \in Reqs |-> <<>>]
    /\ results = [r \in Reqs |-> [size |-> Unset, regex |-> Unset, spacy |-> Unset]]
    /\ response = [r \in Reqs |-> Unset]
    /\ flashes = [r \in Reqs |-> <<>>]
    /\ saved = [r \in Reqs |-> FALSE]
    /\ removal = [r \in Reqs |-> "none"]
    /\ outer = [r \in Reqs |-> FALSE]

\* every part of the program outside `parts` is at its start and has no
\* input
OthersStart(parts) ==
    /\ IF "seg" \in parts THEN TRUE ELSE SegStart
    /\ IF "tot" \in parts THEN TRUE ELSE TotStart
    /\ IF "pipe" \in parts THEN TRUE
       ELSE PipeStart /\ resume_path = <<>> /\ resume_file = Unset
    /\ IF "web" \in parts THEN TRUE
       ELSE /\ WebStart
            /\ route = [r \in Reqs |-> "none"]
            /\ request = [r \in Reqs |-> Unset]
            /\ uploads = <<>>
    /\ IF "model" \in parts THEN TRUE ELSE model_ok = TRUE
    /\ IF "db" \in parts THEN TRUE
       ELSE skills_file = None /\ skills_csv = Unset /\ skills_db = Unset
    /\ IF "name" \in parts THEN TRUE
       ELSE persons = {} /\ name_ret = <<>>
    /\ IF "ent" \in parts THEN TRUE
       ELSE /\ ner = "nothing" /\ sent_mode = "lines" /\ epc = "idle"
            /\ ent_skills = Unset /\ ent_experience = Unset
    /\ IF "cli" \in parts THEN TRUE
       ELSE /\ prog = "none" /\ argv = None /\ cwd_files = {}
            /\ content = Unset /\ cpc = "start" /\ cli_path = Unset
            /\ cli_data = Unset /\ stdout = <<>> /\ exit_status = Unset
    /\ IF "text" \in parts THEN TRUE ELSE text = <<>>

-----------------------------------------------------------------------------
(* Characters and the string methods used by the extractors                *)

UpperChars == <<"A", "B", "C", "D", "E", "F", "G", "H", "I", "J", "K", "L", "M",
                "N", "O", "P", "Q", "R", "S", "T", "U", "V", "W", "X", "Y", "Z">>
LowerChars == <<"a", "b", "c", "d", "e", "f", "g", "h", "i", "j", "k", "l", "m",
                "n", "o", "p", "q", "r", "s", "t", "u", "v", "w", "x", "y", "z">>
Digits == {"0", "1", "2", "3", "4", "5", "6", "7", "8", "9"}
Whitespace == {" ", "\t", "\n", "\r"}

IsUpperChar(c) == \E k \in 1..26 : UpperChars[k] = c
IsLowerChar(c) == \E k \in 1..26 : LowerChars[k] = c

\* c.lower()
LowerTable ==
    [c \in {UpperChars[k] : k \in 1..26} |->
        LowerChars[CHOOSE k \in 1..26 : UpperChars[k] = c]]

LowerChar(c) == IF c \in DOMAIN LowerTable THEN LowerTable[c] ELSE c

\* s.lower()
Lower(s) == [k \in 1..Len(s) |-> LowerChar(s[k])]

\* s.strip(chars)
StripChars(s, chars) ==
    LET RECURSIVE Lo(_), Hi(_)
        \* the first and the last position whose character is kept
        Lo(k) == IF k > Len(s) \/ s[k] \notin chars THEN k ELSE Lo(k + 1)
        Hi(k) == IF k < 1 \/ s[k] \notin chars THEN k ELSE Hi(k - 1)
        lo == Lo(1)
    IN  IF lo > Len(s) THEN <<>> ELSE SubSeq(s, lo, Hi(Len(s)))

\* s.strip()
Strip(s) == StripChars(s, Whitespace)

\* s.split(): the maximal runs of non-whitespace characters
RECURSIVE Words(_)
Words(s) ==
    LET t == Strip(s)
    IN  IF t = <<>> THEN <<>>
        ELSE LET ws == {k \in 1..Len(t) : t[k] \in Whitespace}
             IN  IF ws = {} THEN <<t>>
                 ELSE LET e == CHOOSE k \in ws : \A j \in ws : k <= j
                      IN  <<SubSeq(t, 1, e - 1)>> \o Words(SubSeq(t, e + 1, Len(t)))

\* sep.join(ws)
RECURSIVE JoinWith(_, _)
JoinWith(ws, sep) ==
    IF Len(ws) = 0 THEN <<>>
    ELSE IF Len(ws) = 1 THEN ws[1]
    ELSE ws[1] \o sep \o JoinWith(Tail(ws), sep)

\* k in s
Contains(s, k) ==
    \/ k = <<>>
    \/ \E p \in 1..(Len(s) - Len(k) + 1) :
          s[p] = k[1] /\ SubSeq(s, p, p + Len(k) - 1) = k

\* s.startswith(k)
StartsWith(s, k) == Len(k) <= Len(s) /\ SubSeq(s, 1, Len(k)) = k

\* s.split('\n')
RECURSIVE SplitLines(_)
SplitLines(s) ==
    IF \A k \in 1..Len(s) : s[k] # "\n" THEN <<s>>
    ELSE LET p == CHOOSE k \in 1..Len(s) :
                      s[k] = "\n" /\ \A j \in 1..(k - 1) : s[j] # "\n"
         IN  <<SubSeq(s, 1, p - 1)>> \o SplitLines(SubSeq(s, p + 1, Len(s)))

\* '\n'.join(ls)
RECURSIVE JoinLines(_)
JoinLines(ls) ==
    IF Len(ls) = 0 THEN <<>>
    ELSE IF Len(ls) = 1 THEN ls[1]
    ELSE ls[1] \o <<"\n">> \o JoinLines(Tail(ls))

-----------------------------------------------------------------------------
(* Keywords of the section extractors                                      *)

kw_skills == <<"s", "k", "i", "l", "l", "s">>
kw_technical_skills == <<"t", "e", "c", "h", "n", "i", "c", "a", "l", " ", "s", "k", "i", "l", "l", "s">>
kw_technologies == <<"t", "e", "c", "h", "n", "o", "l", "o", "g", "i", "e", "s">>
kw_programming_languages == <<"p", "r", "o", "g", "r", "a", "m", "m", "i", "n", "g", " ", "l", "a", "n", "g", "u", "a", "g", "e", "s">>
kw_education == <<"e", "d", "u", "c", "a", "t", "i", "o", "n">>
kw_academic == <<"a", "c", "a", "d", "e", "m", "i", "c">>
kw_university == <<"u", "n", "i", "v", "e", "r", "s", "i", "t", "y">>
kw_college == <<"c", "o", "l", "l", "e", "g", "e">>
kw_degree == <<"d", "e", "g", "r", "e", "e">>
kw_experience == <<"e", "x", "p", "e", "r", "i", "e", "n", "c", "e">>
kw_work_history == <<"w", "o", "r", "k", " ", "h", "i", "s", "t", "o", "r", "y">>
kw_employment == <<"e", "m", "p", "l", "o", "y", "m", "e", "n", "t">>
kw_professional_experience == <<"p", "r", "o", "f", "e", "s", "s", "i", "o", "n", "a", "l", " ", "e", "x", "p", "e", "r", "i", "e", "n", "c", "e">>
kw_projects == <<"p", "r", "o", "j", "e", "c", "t", "s">>
NotFoundStr == <<"N", "o", "t", " ", "f", "o", "u", "n", "d">>

\* the *_keywords lists: a line containing one of them turns capture on
skills_keywords ==
    {kw_skills, kw_technical_skills, kw_technologies, kw_programming_languages}
education_keywords ==
    {kw_education, kw_academic, kw_university, kw_college, kw_degree}
experience_keywords ==
    {kw_experience, kw_work_history, kw_employment, kw_professional_experience}

\* the startswith((...)) tuples: a captured line starting with one of them
\* ends the loop
skills_closers == {kw_experience, kw_education, kw_projects, kw_work_history}
education_closers == {kw_experience, kw_skills, kw_projects, kw_work_history}
experience_closers == {kw_education, kw_skills, kw_projects}

\* the slice bounds of the return statements
SkillsCap == 5
EducationCap == 3
ExperienceCap == 5

RegexFns == {"extract_skills", "extract_education", "extract_experience"}
AppFns == {"app_extract_skills", "app_extract_education", "app_extract_experience"}
SectionFns == RegexFns \cup AppFns

\* app.py holds copies of the three extractors of regex_parser.py: the same
\* keyword lists, closers and slices; only the not-found value differs.
Triggers(f) ==
    CASE f \in {"extract_skills", "app_extract_skills"} -> skills_keywords
      [] f \in {"extract_education", "app_extract_education"} -> education_keywords
      [] f \in {"extract_experience", "app_extract_experience"} -> experience_keywords

Closers(f) ==
    CASE f \in {"extract_skills", "app_extract_skills"} -> skills_closers
      [] f \in {"extract_education", "app_extract_education"} -> education_closers
      [] f \in {"extract_experience", "app_extract_experience"} -> experience_closers

Cap(f) ==
    CASE f \in {"extract_skills", "app_extract_skills"} -> SkillsCap
      [] f \in {"extract_education", "app_extract_education"} -> EducationCap
      [] f \in {"extract_experience", "app_extract_experience"} -> ExperienceCap

\* what an extractor returns for an empty *_section
NotFound(f) == IF f \in RegexFns THEN None ELSE List(<<NotFoundStr>>)

\* line_lower = line.lower().strip()
LineLower(line) == Strip(Lower(line))

\* any(keyword in line_lower for keyword in *_keywords)
HasTrigger(f, line) ==
    LET line_lower == LineLower(line)
    IN  \E k \in Triggers(f) : Contains(line_lower, k)

\* line_lower.startswith((...))
HasCloser(f, line) ==
    LET line_lower == LineLower(line)
    IN  \E k \in Closers(f) : StartsWith(line_lower, k)

\* the whole *_section, not its first lines
WholeSection(f, sec) == IF sec # <<>> THEN List(sec) ELSE NotFound(f)

\* *_section[:cap] if *_section else <not found>
SectionResult(f, sec) == IF sec # <<>> THEN List(Take(sec, Cap(f))) ELSE NotFound(f)

-----------------------------------------------------------------------------
(* Input texts of the section extractors                                   *)

L_Skills == <<"S", "k", "i", "l", "l", "s">>
L_MySkills == <<"M", "y", " ", "S", "k", "i", "l", "l", "s", ":">>
L_EDUCATION == <<"E", "D", "U", "C", "A", "T", "I", "O", "N">>
L_Experience == <<"E", "x", "p", "e", "r", "i", "e", "n", "c", "e">>
L_Projects == <<"P", "r", "o", "j", "e", "c", "t", "s">>
L_Java == <<" ", " ", "J", "a", "v", "a", " ">>
L_Blank == <<" ">>
L_Mention == <<"I", " ", "h", "a", "v", "e", " ", "e", "d", "u", "c", "a", "t", "i", "o", "n", " ", "e", "x", "p", "e", "r", "i", "e", "n", "c", "e">>
L_EduAndSkills == <<"E", "d", "u", "c", "a", "t", "i", "o", "n", " ", "a", "n", "d", " ", "s", "k", "i", "l", "l", "s">>
L_WorkHistory == <<"W", "o", "r", "k", " ", "H", "i", "s", "t", "o", "r", "y">>

\* header lines, content lines, a blank line, a line that mentions section
\* names in its middle, a header that is a closer and a trigger at once
Catalogue ==
    {L_Skills, L_MySkills, L_EDUCATION, L_Experience, L_Projects, L_Java,
     L_Blank, L_Mention, L_EduAndSkills, L_WorkHistory}

R_Ada == <<"A", "d", "a">>
R_Bash == <<"B", "a", "s", "h">>
R_C == <<"C">>
R_Dart == <<"D", "a", "r", "t">>
R_Elm == <<"E", "l", "m">>
R_Go == <<"G", "o">>
R_Perl == <<"P", "e", "r", "l">>
R_Rust == <<"R", "u", "s", "t">>
R_Zig == <<"Z", "i", "g">>

\* distinct content lines holding no keyword
RunLines == <<R_Ada, R_Bash, R_C, R_Dart, R_Elm, R_Go, R_Perl, R_Rust, R_Zig>>

\* texts of up to MaxShort arbitrary catalogue lines
MaxShort == 3
\* texts of one catalogue line, up to MaxRun content lines, and at most one
\* more catalogue line
MaxRun == 7

Run(n) == SubSeq(RunLines, 1, Min(n, Len(RunLines)))

ShortTexts ==
    {JoinLines(ls) : ls \in UNION {[1..k -> Catalogue] : k \in 0..MaxShort}}
LongTexts ==
    {JoinLines(<<h>> \o Run(n) \o t) :
        h \in Catalogue, n \in 1..MaxRun,
        t \in {<<>>} \cup {<<c>> : c \in Catalogue}}
SegTexts == ShortTexts \cup LongTexts

-----------------------------------------------------------------------------
(* The section extractors, one action per step of their loop               *)

SegInit ==
    /\ text \in SegTexts
    /\ SegStart
    /\ OthersStart({"seg", "text"})

\* the call: lines = text.split('\n'), *_section = [], capture = False
CallExtractor(f) ==
    /\ pc = "idle"
    /\ fn' = f
    /\ lines' = SplitLines(text)
    /\ idx' = 1
    /\ capture' = FALSE
    /\ section' = <<>>
    /\ pc' = "loop"
    /\ UNCHANGED <<nonSegVars, text, ret>>

\* the trigger branch as it would be with the test guarded by `not capture`:
\* a trigger line met while capturing is stored like any other line
LoopTriggerOnce ==
    /\ pc = "loop"
    /\ idx <= Len(lines)
    /\ HasTrigger(fn, lines[idx])
    /\ capture' = TRUE
    /\ section' = IF capture /\ ~HasCloser(fn, lines[idx])
                  THEN Append(section, Strip(lines[idx])) ELSE section
    /\ idx' = idx + 1
    /\ UNCHANGED <<nonSegVars, text, fn, lines, ret, pc>>

\* if any(keyword in line_lower ...): capture = True; continue
LoopTrigger ==
    /\ pc = "loop"
    /\ idx <= Len(lines)
    /\ HasTrigger(fn, lines[idx])
    /\ capture' = TRUE
    /\ idx' = idx + 1
    /\ UNCHANGED <<nonSegVars, text, fn, lines, section, ret, pc>>

\* elif capture and line_lower.startswith((...)): break
LoopBreak ==
    /\ pc = "loop"
    /\ idx <= Len(lines)
    /\ ~HasTrigger(fn, lines[idx])
    /\ capture /\ HasCloser(fn, lines[idx])
    /\ pc' = "after"
    /\ UNCHANGED <<nonSegVars, text, fn, lines, idx, capture, section, ret>>

\* the append branch without its capture test: every non-blank line that is
\* not a trigger line is stored
LoopAppendUncaptured ==
    /\ pc = "loop"
    /\ idx <= Len(lines)
    /\ ~HasTrigger(fn, lines[idx])
    /\ ~(capture /\ HasCloser(fn, lines[idx]))
    /\ Strip(lines[idx]) # <<>>
    /\ section' = Append(section, Strip(lines[idx]))
    /\ idx' = idx + 1
    /\ UNCHANGED <<nonSegVars, text, fn, lines, capture, ret, pc>>

\* elif capture and line.strip(): *_section.append(line.strip())
LoopAppend ==
    /\ pc = "loop"
    /\ idx <= Len(lines)
    /\ ~HasTrigger(fn, lines[idx])
    /\ ~(capture /\ HasCloser(fn, lines[idx]))
    /\ capture /\ Strip(lines[idx]) # <<>>
    /\ section' = Append(section, Strip(lines[idx]))
    /\ idx' = idx + 1
    /\ UNCHANGED <<nonSegVars, text, fn, lines, capture, ret, pc>>

\* no branch taken: the loop goes to the next line
LoopSkip ==
    /\ pc = "loop"
    /\ idx <= Len(lines)
    /\ ~HasTrigger(fn, lines[idx])
    /\ ~(capture /\ HasCloser(fn, lines[idx]))
    /\ ~(capture /\ Strip(lines[idx]) # <<>>)
    /\ idx' = idx + 1
    /\ UNCHANGED <<nonSegVars, text, fn, lines, capture, section, ret, pc>>

\* the lines are exhausted
LoopEnd ==
    /\ pc = "loop"
    /\ idx > Len(lines)
    /\ pc' = "after"
    /\ UNCHANGED <<nonSegVars, text, fn, lines, idx, capture, section, ret>>

\* return *_section[:cap] if *_section else <not found>
ReturnSection ==
    /\ pc = "after"
    /\ ret' = SectionResult(fn, section)
    /\ pc' = "returned"
    /\ UNCHANGED <<nonSegVars, text, fn, lines, idx, capture, section>>

SegNext ==
    \/ \E f \in SectionFns : CallExtractor(f)
    \/ LoopTrigger
    \/ LoopBreak
    \/ LoopAppend
    \/ LoopSkip
    \/ LoopEnd
    \/ ReturnSection

SegSpec == SegInit /\ [][SegNext]_vars

-----------------------------------------------------------------------------
(* Claims about the section extractors                                     *)

\* the trimmed lines i+1 .. i+n of the text
LinesAfter(i, n) == [k \in 1..n |-> Strip(lines[i + k])]

\* C1: when the first line holding a trigger keyword is followed by n
\* non-blank lines (none of them a closing header) and then by a line that
\* starts with a closing keyword, the extractor returns exactly the first
\* min(n, cap) of those n lines, trimmed, in their order (its not-found value
\* when n = 0).
C1_ReturnsFirstMinLines ==
    pc = "returned" =>
        \A i \in 1..Len(lines) : \A n \in 0..Len(lines) :
            ( /\ HasTrigger(fn, lines[i])
              /\ \A j \in 1..(i - 1) : ~HasTrigger(fn, lines[j])
              /\ i + n + 1 <= Len(lines)
              /\ \A j \in (i + 1)..(i + n) :
                    Strip(lines[j]) # <<>> /\ ~HasCloser(fn, lines[j])
              /\ HasCloser(fn, lines[i + n + 1]) )
            => ret = IF n = 0 THEN NotFound(fn)
                     ELSE List(LinesAfter(i, Min(n, Cap(fn))))

\* the line holds a closing keyword of f somewhere, not at its start
MentionsCloser(f, line) ==
    /\ \E k \in Closers(f) : Contains(LineLower(line), k)
    /\ ~HasCloser(f, line)

\* C12: in each section extractor, a line that contains a trigger keyword
\* anywhere in it turns capture on; and while capturing, a non-blank line
\* that contains a closing keyword without starting with it does not end the
\* loop and is appended to the section.
C12_Step ==
    (pc = "loop" /\ idx <= Len(lines) /\ (idx' # idx \/ pc' # pc))
    => /\ HasTrigger(fn, lines[idx]) => (capture' /\ pc' = "loop")
       /\ ( /\ capture
            /\ Strip(lines[idx]) # <<>>
            /\ MentionsCloser(fn, lines[idx]) )
          => /\ pc' = "loop"
             /\ section' = Append(section, Strip(lines[idx]))

C12_SubstringOpensPrefixCloses == [][C12_Step]_vars

\* no line among the first n lines holds a trigger keyword of f
NoTriggerIn(f, n) == \A j \in 1..Min(n, Len(lines)) : ~HasTrigger(f, lines[j])

\* C13: when no line of the text contains a trigger keyword of the section,
\* the extractor returns its not-found value (None in RegexResumeParser,
\* ['Not found'] in app.py); and lines that start with a closing keyword
\* before any trigger line have no effect: the loop goes on to the end with
\* capture off and nothing stored.
C13_NoTriggerGivesNotFound ==
    /\ (pc \in {"loop", "after", "returned"} /\ NoTriggerIn(fn, idx - 1))
       => /\ ~capture
          /\ section = <<>>
          /\ pc # "loop" => idx = Len(lines) + 1
    /\ (pc = "returned" /\ NoTriggerIn(fn, Len(lines)))
       => /\ ret = NotFound(fn)
          /\ ret = IF fn \in RegexFns THEN None ELSE List(<<NotFoundStr>>)

\* an extractor of app.py returned ['Not found'] for a text with content
\* lines and a closing header but no trigger line
C13_Witness ==
    /\ pc = "returned" /\ fn \in AppFns
    /\ NoTriggerIn(fn, Len(lines))
    /\ \E j \in 1..Len(lines) : HasCloser(fn, lines[j])
    /\ \E j \in 1..Len(lines) :
          Strip(lines[j]) # <<>> /\ ~HasCloser(fn, lines[j])
    /\ ret = List(<<NotFoundStr>>)

\* C14: in each section extractor, whenever the loop is capturing and
\* visits a line whose lowercased, trimmed form starts with a closing keyword
\* of the section, the loop ends at that line, whatever else the line holds:
\* the line is not stored and no later line is visited.
C14_Step ==
    ( /\ pc = "loop" /\ idx <= Len(lines)
      /\ capture /\ HasCloser(fn, lines[idx])
      /\ (idx' # idx \/ pc' # pc) )
    => /\ pc' = "after"
       /\ idx' = idx
       /\ section' = section

C14_CloserEndsTheScan == [][C14_Step]_vars

\* the position of the first line that holds a trigger keyword of f (0 when
\* there is none)
FirstTrigger(f) ==
    LET T == {i \in 1..Len(lines) : HasTrigger(f, lines[i])}
    IN  IF T = {} THEN 0 ELSE CHOOSE i \in T : \A j \in T : i <= j

\* res is made, in text order, of the trimmed forms of non-blank lines that
\* hold no trigger keyword of f and lie in lines[from..upto]
TakenInOrder(f, res, from, upto) ==
    LET RECURSIVE Sub(_, _)
        Sub(k, i) ==
            IF k > Len(res) THEN TRUE
            ELSE IF i > upto THEN FALSE
            ELSE IF /\ Strip(lines[i]) = res[k]
                    /\ Strip(lines[i]) # <<>>
                    /\ ~HasTrigger(f, lines[i])
                 THEN Sub(k + 1, i + 1)
                 ELSE Sub(k, i + 1)
    IN  Sub(1, from)

\* C18: for every text and each section extractor, no line that contains a
\* trigger keyword of the section is ever stored or returned, whether it is
\* met before capture starts or while capturing; every stored or returned
\* line is the trimmed form of a non-blank text line located strictly after
\* the first trigger line, and the stored and the returned lines follow the
\* order of the text.
C18_ResultLinesFollowFirstTrigger ==
    /\ (fn # "none" /\ section # <<>>)
       => /\ FirstTrigger(fn) > 0
          /\ \A k \in 1..Len(section) : ~HasTrigger(fn, section[k])
          /\ TakenInOrder(fn, section, FirstTrigger(fn) + 1,
                          Min(idx, Len(lines)))
    /\ (pc = "returned" /\ section # <<>>)
       => /\ ret.tag = "list"
          /\ \A k \in 1..Len(ret.items) : ~HasTrigger(fn, ret.items[k])
          /\ TakenInOrder(fn, ret.items, FirstTrigger(fn) + 1, Len(lines))
    /\ (pc = "returned" /\ section = <<>>) => ret = NotFound(fn)

\* an extractor returned the trimmed third line of a text whose first two
\* lines both hold a trigger keyword: the second was met while capturing
C18_Witness ==
    /\ pc = "returned"
    /\ Len(lines) = 3
    /\ HasTrigger(fn, lines[1]) /\ HasTrigger(fn, lines[2])
    /\ lines[1] # lines[2]
    /\ lines[3] = L_Java
    /\ ret = List(<<Strip(L_Java)>>)

-----------------------------------------------------------------------------
(* The total-experience heuristic of FixedResumeParser.get_extracted_data  *)

kw_years == <<"y", "e", "a", "r", "s">>
kw_year == <<"y", "e", "a", "r">>
PlusYears == <<"+", " ", "y", "e", "a", "r", "s">>

\* experience_keywords = ['years', 'year', 'experience']
fixed_experience_keywords == <<kw_years, kw_year, kw_experience>>

\* [\s\+]
IsGap(c) == c \in Whitespace \cup {"+"}

\* the length of the longest run of digits, or of [\s\+], from position p
RECURSIVE DigitRun(_, _)
DigitRun(s, p) ==
    IF p > Len(s) \/ s[p] \notin Digits THEN 0 ELSE 1 + DigitRun(s, p + 1)

RECURSIVE GapRun(_, _)
GapRun(s, p) ==
    IF p > Len(s) \/ ~IsGap(s[p]) THEN 0 ELSE 1 + GapRun(s, p + 1)

\* The match of (\d+)[\s\+]*<keyword> that starts at position p of s, as
\* [d |-> length of the digit group, e |-> last position of the match]: d
\* digits, w gap characters and the keyword, the digit group and then the gap
\* taken as long as a match allows (greedy); d = 0 when there is none.
MatchAt(s, p, keyword) ==
    LET at(q) ==
            /\ q + Len(keyword) - 1 <= Len(s)
            /\ SubSeq(s, q, q + Len(keyword) - 1) = keyword
        ok(d, w) == w <= GapRun(s, p + d) /\ at(p + d + w)
        ds == {d \in 1..DigitRun(s, p) : \E w \in 0..GapRun(s, p + d) : ok(d, w)}
    IN  IF ds = {} THEN [d |-> 0, e |-> 0]
        ELSE LET d == CHOOSE x \in ds : \A y \in ds : y <= x
                 ws == {w \in 0..GapRun(s, p + d) : ok(d, w)}
                 w == CHOOSE x \in ws : \A y \in ws : y <= x
             IN  [d |-> d, e |-> p + d + w + Len(keyword) - 1]

\* re.findall(pattern, s) from position p on: the digit groups of the
\* non-overlapping matches, left to right
RECURSIVE FindallFrom(_, _, _)
FindallFrom(s, p, keyword) ==
    IF p > Len(s) THEN <<>>
    ELSE LET m == MatchAt(s, p, keyword)
         IN  IF m.d = 0 THEN FindallFrom(s, p + 1, keyword)
             ELSE <<SubSeq(s, p, p + m.d - 1)>> \o FindallFrom(s, m.e + 1, keyword)

Findall(s, keyword) == FindallFrom(s, 1, keyword)

\* a < b for two strings of digits, as Python orders str values: by the
\* first differing character, a proper prefix first
RECURSIVE StrLess(_, _)
StrLess(a, b) ==
    IF b = <<>> THEN FALSE
    ELSE IF a = <<>> THEN TRUE
    ELSE IF Head(a) # Head(b)
         THEN (CHOOSE k \in 0..9 : ToString(k) = Head(a))
                < (CHOOSE k \in 0..9 : ToString(k) = Head(b))
    ELSE StrLess(Tail(a), Tail(b))

\* max(exp_matches): exp_matches is a list of str
MaxMatch(ms) ==
    CHOOSE m \in {ms[k] : k \in 1..Len(ms)} :
        \A k \in 1..Len(ms) : ~StrLess(m, ms[k])

P_5years == <<"5", " ", "y", "e", "a", "r", "s", " ">>
P_3plus == <<"3", "+", " ", "y", "e", "a", "r", "s", " ", "e", "x", "p", "e", "r", "i", "e", "n", "c", "e", " ">>
P_10Years == <<"1", "0", " ", "Y", "e", "a", "r", "s", " ">>
P_1year == <<"1", " ", "y", "e", "a", "r", " ">>
P_7exp == <<"7", "e", "x", "p", "e", "r", "i", "e", "n", "c", "e">>
P_12 == <<"1", "2">>
P_SpPlus == <<" ", "+">>
P_years == <<"y", "e", "a", "r", "s">>
P_and == <<"a", "n", "d", " ">>
P_9months == <<"9", " ", "m", "o", "n", "t", "h", "s", " ">>

Phrases ==
    {P_5years, P_3plus, P_10Years, P_1year, P_7exp, P_12, P_SpPlus, P_years,
     P_and, P_9months}

\* texts of up to MaxPhrases phrases, one after the other
MaxPhrases == 3

RECURSIVE Concat(_)
Concat(ss) == IF ss = <<>> THEN <<>> ELSE Head(ss) \o Concat(Tail(ss))

TotTexts ==
    {Concat(ps) : ps \in UNION {[1..k -> Phrases] : k \in 0..MaxPhrases}}

TotInit ==
    /\ text \in TotTexts
    /\ TotStart
    /\ OthersStart({"tot", "text"})

\* exp_matches = []
TotBegin ==
    /\ totPc = "idle"
    /\ exp_matches' = <<>>
    /\ exp_kw' = 1
    /\ totPc' = "loop"
    /\ UNCHANGED <<nonTotVars, text, total_experience>>

\* one turn of `for keyword in experience_keywords`:
\* exp_matches.extend(re.findall(pattern, text.lower()))
TotFindall ==
    /\ totPc = "loop"
    /\ exp_kw <= Len(fixed_experience_keywords)
    /\ exp_matches' =
          exp_matches \o Findall(Lower(text), fixed_experience_keywords[exp_kw])
    /\ exp_kw' = exp_kw + 1
    /\ UNCHANGED <<nonTotVars, text, total_experience, totPc>>

TotLoopEnd ==
    /\ totPc = "loop"
    /\ exp_kw > Len(fixed_experience_keywords)
    /\ totPc' = "after"
    /\ UNCHANGED <<nonTotVars, text, exp_kw, exp_matches, total_experience>>

\* if exp_matches: extracted_data['total_experience'] = f"{max(exp_matches)}+ years"
TotAssign ==
    /\ totPc = "after"
    /\ exp_matches # <<>>
    /\ total_experience' = Str(MaxMatch(exp_matches) \o PlusYears)
    /\ totPc' = "done"
    /\ UNCHANGED <<nonTotVars, text, exp_kw, exp_matches>>

\* exp_matches is empty: the key is not set
TotOmit ==
    /\ totPc = "after"
    /\ exp_matches = <<>>
    /\ totPc' = "done"
    /\ UNCHANGED <<nonTotVars, text, exp_kw, exp_matches, total_experience>>

TotNext ==
    \/ TotBegin
    \/ TotFindall
    \/ TotLoopEnd
    \/ TotAssign
    \/ TotOmit

TotSpec == TotInit /\ [][TotNext]_vars

-----------------------------------------------------------------------------
(* Claims about the total-experience heuristic                             *)

\* the digit groups of s (whole runs of digits) that are followed, after any
\* run of whitespace or '+', by 'years', 'year' or 'experience'
DigitGroups(s) ==
    {SubSeq(s, p, p + DigitRun(s, p) - 1) :
        p \in {q \in 1..Len(s) :
                 /\ s[q] \in Digits
                 /\ q = 1 \/ s[q - 1] \notin Digits
                 /\ LET r == q + DigitRun(s, q)
                        k == r + GapRun(s, r)
                    IN  \E keyword \in {kw_years, kw_year, kw_experience} :
                            /\ k + Len(keyword) - 1 <= Len(s)
                            /\ SubSeq(s, k, k + Len(keyword) - 1) = keyword}}

\* the number a string of digits denotes
RECURSIVE Num(_)
Num(g) ==
    IF g = <<>> THEN 0
    ELSE 10 * Num(SubSeq(g, 1, Len(g) - 1))
           + (CHOOSE k \in 0..9 : ToString(k) = g[Len(g)])

\* C2: when the text holds a digit group followed by 'years', 'year' or
\* 'experience' (case-insensitively), total_experience is '<N>+ years' with N
\* the numerically largest of those groups; when it holds none, the record
\* has no total_experience key.
C2_TotalIsNumericMax ==
    totPc = "done" =>
        LET gs == DigitGroups(Lower(text))
        IN  IF gs = {} THEN total_experience = Absent
            ELSE \E g \in gs :
                    /\ \A h \in gs : Num(h) <= Num(g)
                    /\ total_experience = Str(g \o PlusYears)

-----------------------------------------------------------------------------
(* Files, paths and the three pipelines                                    *)

\* what the file system holds at a path: nothing, a file the document
\* library cannot read, or a document with its text; owner is the upload
\* request that wrote it (0: not an upload)
MissingFile == [st |-> "missing", text |-> <<>>, owner |-> 0]
CorruptFile(o) == [st |-> "corrupt", text |-> <<>>, owner |-> o]
TextFile(t, o) == [st |-> "ok", text |-> t, owner |-> o]

Raise(e) == [kind |-> "raise", val |-> e, printed |-> <<>>]
Return(v, out) == [kind |-> "return", val |-> v, printed |-> out]

\* the greatest position of character c in s, 0 when it has none: s.rfind(c)
LastIndex(s, c) ==
    LET at == {k \in 1..Len(s) : s[k] = c}
    IN  IF at = {} THEN 0 ELSE CHOOSE k \in at : \A j \in at : j <= k

\* os.path.splitext(p)[1]: from the last dot of the last path component,
\* unless only dots precede it there
SplitExt(p) ==
    LET sep == LastIndex(p, "/")
        dot == LastIndex(p, ".")
    IN  IF dot > sep /\ \E k \in (sep + 1)..(dot - 1) : p[k] # "."
        THEN SubSeq(p, dot, Len(p))
        ELSE <<>>

X_pdf == <<".", "p", "d", "f">>
X_docx == <<".", "d", "o", "c", "x">>
X_doc == <<".", "d", "o", "c">>

\* the exception of pdfplumber.open / docx2txt.process for a file
LibraryError(file) ==
    IF file.st = "missing" THEN "No such file or directory"
    ELSE "not a readable document"

\* RegexResumeParser.extract_text_from_file (and app.py's): the text, or the
\* exception raised
extract_text_from_file(path, file) ==
    LET file_extension == Lower(SplitExt(path))
    IN  IF file_extension = X_pdf
        THEN IF file.st = "ok" THEN Return(file.text, <<>>)
             ELSE Raise(<<"Error reading PDF: ", LibraryError(file)>>)
        ELSE IF file_extension \in {X_docx, X_doc}
        THEN IF file.st = "ok" THEN Return(file.text, <<>>)
             ELSE Raise(<<"Error reading DOCX: ", LibraryError(file)>>)
        ELSE Raise(<<"Unsupported file format: ", file_extension,
                     ". Only PDF and DOCX are supported.">>)

\* FixedResumeParser._extract_text_from_file: the library's exception is not
\* wrapped
fixed_extract_text_from_file(path, file) ==
    LET file_ext == Lower(SplitExt(path))
    IN  IF file_ext \in {X_pdf, X_docx, X_doc}
        THEN IF file.st = "ok" THEN Return(file.text, <<>>)
             ELSE Raise(LibraryError(file))
        ELSE Raise(<<"Unsupported file format: ", file_ext>>)

\* not text or not text.strip()
NoText(t) == t = <<>> \/ Strip(t) = <<>>

PageChars == 3000
\* len(text) // 3000 + 1
no_of_pages(t) == (Len(t) \div PageChars) + 1

FieldKeys ==
    {"name", "email", "mobile_number", "skills", "education", "experience"}

\* the dict a pipeline builds from a text: its keys, and the text the values
\* are extracted from
Record(keys, t) == [tag |-> "record", keys |-> keys, text |-> t]

\* whether get_extracted_data sets total_experience for a text
HasTotalExperience(t) ==
    \E k \in 1..Len(fixed_experience_keywords) :
        Findall(Lower(t), fixed_experience_keywords[k]) # <<>>

\* RegexResumeParser.extract_resume_data
extract_resume_data(path, file) ==
    LET src == extract_text_from_file(path, file)
    IN  IF src.kind = "raise"
        THEN Raise(<<"Error extracting resume data: ", src.val>>)
        ELSE IF NoText(src.val)
        THEN Raise(<<"Error extracting resume data: ",
                     "No text content found in the file">>)
        ELSE Return(Record(FieldKeys \cup {"no_of_pages"}, src.val), <<>>)

\* app.py's extract_resume_data: prints the error and returns None
app_extract_resume_data(path, file) ==
    LET src == extract_text_from_file(path, file)
        ok == IF Lower(SplitExt(path)) = X_pdf
              THEN "PDF content extracted successfully"
              ELSE "DOCX content extracted successfully"
    IN  IF src.kind = "raise"
        THEN Return(None, <<<<"Error extracting resume data: ", src.val>>>>)
        ELSE IF NoText(src.val)
        THEN Return(None, <<ok, <<"Error extracting resume data: ",
                                  "No text content found in the file">>>>)
        ELSE Return(Record(FieldKeys, src.val), <<ok>>)

\* FixedResumeParser.get_extracted_data
get_extracted_data(path, file) ==
    LET src == fixed_extract_text_from_file(path, file)
    IN  IF src.kind = "raise"
        THEN Return(None, <<<<"Error extracting data: ", src.val>>>>)
        ELSE IF NoText(src.val)
        THEN Return(None, <<>>)
        ELSE Return(
                Record(FieldKeys
                         \cup {"no_of_pages", "company_names", "designation"}
                         \cup (IF HasTotalExperience(src.val)
                               THEN {"total_experience"} ELSE {}),
                       src.val),
                <<"Text extracted successfully">>)

Pipelines == {"regex", "app", "fixed"}

RunOf(p, path, file) ==
    CASE p = "regex" -> extract_resume_data(path, file)
      [] p = "app" -> app_extract_resume_data(path, file)
      [] p = "fixed" -> get_extracted_data(path, file)

N_cv_pdf == <<"c", "v", ".", "p", "d", "f">>
N_CV_PDF == <<"C", "V", ".", "P", "D", "F">>
N_b_docx == <<"b", ".", "d", "o", "c", "x">>
N_old_doc == <<"o", "l", "d", ".", "d", "o", "c">>
N_cv_txt == <<"c", "v", ".", "t", "x", "t">>
N_dot_pdf == <<".", "p", "d", "f">>
T_resume == <<"J", "O", "H", "N", " ", "S", "M", "I", "T", "H">>

PipePaths == {N_cv_pdf, N_CV_PDF, N_b_docx, N_old_doc, N_cv_txt, N_dot_pdf}

\* documents without text, with blank text, with text
DocTexts == {<<>>, <<" ">>, <<" ", "\n", "\t">>, T_resume, T_resume \o <<"\n">> \o P_5years}

PipeFiles == {MissingFile, CorruptFile(0)} \cup {TextFile(t, 0) : t \in DocTexts}

PipeInit ==
    /\ resume_path \in PipePaths
    /\ resume_file \in PipeFiles
    /\ PipeStart
    /\ OthersStart({"pipe"})

\* one call of a pipeline on the path
CallPipeline(p) ==
    /\ pipeline = "none"
    /\ pipeline' = p
    /\ outcome' = RunOf(p, resume_path, resume_file)
    /\ UNCHANGED <<nonPipeVars, resume_path, resume_file>>

PipeNext == \E p \in Pipelines : CallPipeline(p)

PipeSpec == PipeInit /\ [][PipeNext]_vars

-----------------------------------------------------------------------------
(* Claims about the pipelines                                              *)

\* what the caller of a pipeline gets: the value returned or the exception
Reported(o) == [kind |-> o.kind, val |-> o.val]

\* the files on which the text source itself fails
FailingFiles == {MissingFile, CorruptFile(0)}

\* C9: when the text source returns empty or whitespace-only text, the
\* pipeline reports a failure (no record), and what it reports to its caller
\* differs from what it reports when the text source fails on a corrupt or
\* unreadable file.
C9_EmptyTextIsDistinctFailure ==
    ( /\ pipeline # "none"
      /\ Lower(SplitExt(resume_path)) \in {X_pdf, X_docx, X_doc}
      /\ resume_file.st = "ok" /\ NoText(resume_file.text) )
    => /\ ~(outcome.kind = "return" /\ outcome.val.tag = "record")
       /\ \A f \in FailingFiles :
             Reported(RunOf(pipeline, resume_path, f)) # Reported(outcome)

-----------------------------------------------------------------------------
(* The upload handlers of web_app.py                                       *)

UPLOAD_FOLDER == <<"u", "p", "l", "o", "a", "d", "s">>
E_pdf == <<"p", "d", "f">>
E_docx == <<"d", "o", "c", "x">>
E_doc == <<"d", "o", "c">>
ALLOWED_EXTENSIONS == {E_pdf, E_docx, E_doc}

\* '.' in filename and filename.rsplit('.', 1)[1].lower() in ALLOWED_EXTENSIONS
allowed_file(filename) ==
    /\ Contains(filename, <<".">>)
    /\ Lower(SubSeq(filename, LastIndex(filename, ".") + 1, Len(filename)))
          \in ALLOWED_EXTENSIONS

\* the characters werkzeug's secure_filename keeps: [A-Za-z0-9_.-]
IsSafeChar(c) ==
    IsUpperChar(c) \/ IsLowerChar(c) \/ c \in Digits \/ c \in {"_", ".", "-"}

\* werkzeug.utils.secure_filename: path separators become spaces, the words
\* are joined by '_', every other character is dropped, and leading and
\* trailing '.' and '_' are stripped
secure_filename(filename) ==
    LET spaced == [k \in 1..Len(filename) |->
                      IF filename[k] = "/" THEN " " ELSE filename[k]]
        joined == JoinWith(Words(spaced), <<"_">>)
        RECURSIVE Safe(_)
        Safe(t) == IF t = <<>> THEN <<>>
                   ELSE (IF IsSafeChar(Head(t)) THEN <<Head(t)>> ELSE <<>>)
                          \o Safe(Tail(t))
    IN  StripChars(Safe(joined), {".", "_"})

\* os.path.join(app.config['UPLOAD_FOLDER'], filename)
UploadPath(filename) == UPLOAD_FOLDER \o <<"/">> \o filename

\* {'error': str(e)}
ErrorDict(e) == [tag |-> "error", error |-> e]

\* format_result_for_display(data, parser_name)
format_result_for_display(data, parser_name) ==
    IF data = None
    THEN ErrorDict(<<parser_name, " failed to extract data">>)
    ELSE [tag |-> "formatted", parser_name |-> parser_name, success |-> TRUE,
          data |-> data]

\* the entry upload_file stores when a pipeline raised
FailedEntry(parser_name, e) ==
    [tag |-> "failed", parser_name |-> parser_name, success |-> FALSE,
     error |-> e]

\* the exception of spacy.load when the model is not installed
ModelError == "Can't find model 'en_core_web_sm'"

\* the rules of @app.route: the path of each view function
url_for(endpoint) ==
    CASE endpoint = "index" -> "/"
      [] endpoint = "upload_file" -> "/upload"
      [] endpoint = "api_upload" -> "/api/upload"

\* request.url of request r: the URL the request was sent to
request_url(r) ==
    IF route[r] = "upload" THEN url_for("upload_file") ELSE url_for("api_upload")

Redirect(target) == [kind |-> "redirect", status |-> 302, to |-> target, body |-> Unset]
Render(template, body) == [kind |-> "render", status |-> 200, to |-> template, body |-> body]
Json(body, status) == [kind |-> "json", status |-> status, to |-> "", body |-> body]

N_up_cv_pdf == <<".", ".", "/", "c", "v", ".", "p", "d", "f">>

\* the filenames a client sends: none, a disallowed one, two that secure to
\* the same name, one whose secured name has no extension left
FileNames == {<<>>, N_cv_txt, N_cv_pdf, N_up_cv_pdf, N_dot_pdf}

\* what request r uploads: no 'file' part, or a file with a name and a body
Requests(r) ==
    {[has_file |-> FALSE, filename |-> <<>>, body |-> MissingFile]}
    \cup {[has_file |-> TRUE, filename |-> n, body |-> TextFile(T_resume, r)] :
            n \in {m \in FileNames : ~allowed_file(m)}}
    \cup {[has_file |-> TRUE, filename |-> n, body |-> b] :
            n \in {m \in FileNames : allowed_file(m)},
            b \in {CorruptFile(r), TextFile(<<>>, r), TextFile(T_resume, r)}}

UploadPaths == {UploadPath(secure_filename(n)) : n \in FileNames}

WebInit ==
    /\ route \in [Reqs -> {"upload", "api"}]
    /\ request \in {q \in [Reqs -> UNION {Requests(r) : r \in Reqs}] :
                       \A r \in Reqs : q[r] \in Requests(r)}
    /\ uploads = [p \in UploadPaths |-> MissingFile]
    /\ model_ok \in BOOLEAN
    /\ WebStart
    /\ OthersStart({"web", "model"})

\* the handler of request r returns resp
Finish(r, resp) ==
    /\ response' = [response EXCEPT ![r] = resp]
    /\ wpc' = [wpc EXCEPT ![r] = "done"]

\* the outer `except Exception as e` of the handler of request r
OuterExcept(r, e) ==
    /\ outer' = [outer EXCEPT ![r] = TRUE]
    /\ IF route[r] = "upload"
       THEN /\ flashes' = [flashes EXCEPT
                             ![r] = Append(@, <<"Error processing file: ", e>>)]
            /\ Finish(r, Redirect(url_for("index")))
       ELSE /\ flashes' = flashes
            /\ Finish(r, Json(ErrorDict(e), 500))

\* upload_file: the checks of the 'file' part
UploadCheck(r) ==
    /\ route[r] = "upload" /\ wpc[r] = "start"
    /\ IF ~request[r].has_file \/ request[r].filename = <<>>
       THEN /\ flashes' = [flashes EXCEPT ![r] = Append(@, "No file selected")]
            /\ Finish(r, Redirect(request_url(r)))
            /\ UNCHANGED file_path
       ELSE IF ~allowed_file(request[r].filename)
       THEN /\ flashes' = [flashes EXCEPT ![r] = Append(@,
                  "Invalid file type. Please upload PDF, DOCX, or DOC files only.")]
            /\ Finish(r, Redirect(request_url(r)))
            /\ UNCHANGED file_path
       ELSE /\ file_path' = [file_path EXCEPT
                  ![r] = UploadPath(secure_filename(request[r].filename))]
            /\ wpc' = [wpc EXCEPT ![r] = "save"]
            /\ UNCHANGED <<flashes, response>>
    /\ UNCHANGED <<nonWebVars, route, request, results, saved, removal, outer,
                   uploads, model_ok>>

\* api_upload with no test of the extension: every request that has a 'file'
\* part goes on to the save
ApiCheckAnyExtension(r) ==
    /\ route[r] = "api" /\ wpc[r] = "start"
    /\ IF ~request[r].has_file
       THEN /\ Finish(r, Json(ErrorDict("No file provided"), 400))
            /\ UNCHANGED file_path
       ELSE /\ file_path' = [file_path EXCEPT
                  ![r] = UploadPath(secure_filename(request[r].filename))]
            /\ wpc' = [wpc EXCEPT ![r] = "save"]
            /\ UNCHANGED response
    /\ UNCHANGED <<nonWebVars, route, request, results, flashes, saved, removal,
                   outer, uploads, model_ok>>

\* api_upload: the checks of the 'file' part
ApiCheck(r) ==
    /\ route[r] = "api" /\ wpc[r] = "start"
    /\ IF ~request[r].has_file
       THEN /\ Finish(r, Json(ErrorDict("No file provided"), 400))
            /\ UNCHANGED file_path
       ELSE IF ~allowed_file(request[r].filename)
       THEN /\ Finish(r, Json(ErrorDict("Invalid file type"), 400))
            /\ UNCHANGED file_path
       ELSE /\ file_path' = [file_path EXCEPT
                  ![r] = UploadPath(secure_filename(request[r].filename))]
            /\ wpc' = [wpc EXCEPT ![r] = "save"]
            /\ UNCHANGED response
    /\ UNCHANGED <<nonWebVars, route, request, results, flashes, saved, removal,
                   outer, uploads, model_ok>>

\* file.save(file_path) writes the body
SaveFile(r) ==
    /\ wpc[r] = "save"
    /\ uploads' = [uploads EXCEPT ![file_path[r]] = request[r].body]
    /\ saved' = [saved EXCEPT ![r] = TRUE]
    /\ wpc' = [wpc EXCEPT ![r] = IF route[r] = "upload" THEN "getsize" ELSE "regex"]
    /\ UNCHANGED <<nonWebVars, route, request, file_path, results, response,
                   flashes, removal, outer, model_ok>>

\* file.save(file_path) raises (the folder is not writable, the disk is full)
SaveFails(r) ==
    /\ wpc[r] = "save"
    /\ OuterExcept(r, "file.save failed")
    /\ UNCHANGED <<nonWebVars, route, request, file_path, results, saved,
                   removal, uploads, model_ok>>

\* upload_file: "file_size": os.path.getsize(file_path), outside the inner
\* try blocks; it raises when the file is not there
GetSize(r) ==
    /\ wpc[r] = "getsize"
    /\ IF uploads[file_path[r]].st = "missing"
       THEN /\ OuterExcept(r, "No such file or directory")
            /\ UNCHANGED results
       ELSE /\ results' = [results EXCEPT ![r].size = uploads[file_path[r]]]
            /\ wpc' = [wpc EXCEPT ![r] = "regex"]
            /\ UNCHANGED <<response, flashes, outer>>
    /\ UNCHANGED <<nonWebVars, route, request, file_path, saved, removal,
                   uploads, model_ok>>

\* the regex step with no try around it: what the pipeline raises goes to
\* the handler's outer except clause
RegexStepUnguarded(r) ==
    /\ wpc[r] = "regex"
    /\ LET o == extract_resume_data(file_path[r], uploads[file_path[r]])
       IN  IF o.kind = "raise"
           THEN /\ OuterExcept(r, o.val)
                /\ UNCHANGED results
           ELSE /\ results' = [results EXCEPT ![r].regex =
                       IF route[r] = "upload"
                       THEN format_result_for_display(o.val, "Regex Parser")
                       ELSE o.val]
                /\ wpc' = [wpc EXCEPT ![r] = "spacy"]
                /\ UNCHANGED <<response, flashes, outer>>
    /\ UNCHANGED <<nonWebVars, route, request, file_path, saved, removal,
                   uploads, model_ok>>

\* the first inner try: RegexResumeParser().extract_resume_data(file_path)
RegexStep(r) ==
    /\ wpc[r] = "regex"
    /\ LET o == extract_resume_data(file_path[r], uploads[file_path[r]])
           entry ==
               IF route[r] = "upload"
               THEN IF o.kind = "raise" THEN FailedEntry("Regex Parser", o.val)
                    ELSE format_result_for_display(o.val, "Regex Parser")
               ELSE IF o.kind = "raise" THEN ErrorDict(o.val) ELSE o.val
       IN  results' = [results EXCEPT ![r].regex = entry]
    /\ wpc' = [wpc EXCEPT ![r] = "spacy"]
    /\ UNCHANGED <<nonWebVars, route, request, file_path, response, flashes,
                   saved, removal, outer, uploads, model_ok>>

\* the second inner try: FixedResumeParser(file_path).get_extracted_data();
\* the constructor raises when spacy.load fails
SpacyStep(r) ==
    /\ wpc[r] = "spacy"
    /\ LET o == IF model_ok
                THEN get_extracted_data(file_path[r], uploads[file_path[r]])
                ELSE Raise(ModelError)
           entry ==
               IF route[r] = "upload"
               THEN IF o.kind = "raise"
                    THEN FailedEntry("spaCy + NLTK Parser", o.val)
                    ELSE format_result_for_display(o.val, "spaCy + NLTK Parser")
               ELSE IF o.kind = "raise" THEN ErrorDict(o.val) ELSE o.val
       IN  results' = [results EXCEPT ![r].spacy = entry]
    /\ wpc' = [wpc EXCEPT ![r] = "cleanup"]
    /\ UNCHANGED <<nonWebVars, route, request, file_path, response, flashes,
                   saved, removal, outer, uploads, model_ok>>

\* try: os.remove(file_path) removes the file
RemoveFile(r) ==
    /\ wpc[r] = "cleanup"
    /\ uploads[file_path[r]].st # "missing"
    /\ uploads' = [uploads EXCEPT ![file_path[r]] = MissingFile]
    /\ removal' = [removal EXCEPT ![r] = "removed"]
    /\ wpc' = [wpc EXCEPT ![r] = "respond"]
    /\ UNCHANGED <<nonWebVars, route, request, file_path, results, response,
                   flashes, saved, outer, model_ok>>

\* os.remove(file_path) raises (the file is gone, or cannot be removed);
\* except: pass
RemoveFails(r) ==
    /\ wpc[r] = "cleanup"
    /\ removal' = [removal EXCEPT ![r] = "failed"]
    /\ wpc' = [wpc EXCEPT ![r] = "respond"]
    /\ UNCHANGED <<nonWebVars, route, request, file_path, results, response,
                   flashes, saved, outer, uploads, model_ok>>

\* return render_template('results.html', results=results) / jsonify(results)
Respond(r) ==
    /\ wpc[r] = "respond"
    /\ Finish(r, IF route[r] = "upload"
                 THEN Render("results.html", results[r])
                 ELSE Json(results[r], 200))
    /\ UNCHANGED <<nonWebVars, route, request, file_path, results, flashes,
                   saved, removal, outer, uploads, model_ok>>

WebNext ==
    \E r \in Reqs :
        \/ UploadCheck(r)
        \/ ApiCheck(r)
        \/ SaveFile(r)
        \/ SaveFails(r)
        \/ GetSize(r)
        \/ RegexStep(r)
        \/ SpacyStep(r)
        \/ RemoveFile(r)
        \/ RemoveFails(r)
        \/ Respond(r)

WebSpec == WebInit /\ [][WebNext]_vars

-----------------------------------------------------------------------------
(* Claims about the upload handlers                                        *)

\* an extracted record: a dict with the six fields
IsRecordEntry(v) == v.tag = "record" /\ FieldKeys \subseteq v.keys

\* an object with an 'error' message
IsErrorEntry(v) == v.tag = "error"

\* C3: for every POST /api/upload whose file passed the checks and was
\* saved, the JSON response has the keys regex_parser and spacy_parser, and
\* the value under each is either the pipeline's extracted record or an
\* object with an 'error' message, whatever the text source did.
C3_ApiEntriesAreRecordOrError ==
    \A r \in Reqs :
        (route[r] = "api" /\ saved[r] /\ wpc[r] = "done")
        => /\ response[r].kind = "json"
           /\ IsRecordEntry(response[r].body.regex)
                 \/ IsErrorEntry(response[r].body.regex)
           /\ IsRecordEntry(response[r].body.spacy)
                 \/ IsErrorEntry(response[r].body.spacy)

\* an entry that records an exception of the pipeline
IsRaisedEntry(r, v) ==
    IF route[r] = "upload" THEN v.tag = "failed" ELSE v.tag = "error"

\* C4: in both handlers, once the regex step is reached, the entity step is
\* attempted whether or not the regex pipeline raised, the regex entry is
\* kept whether or not the entity pipeline raised, neither step reaches the
\* outer except clause, and the response carries both entries.
C4_Step ==
    \A r \in Reqs :
        /\ (wpc[r] = "regex" /\ wpc'[r] # "regex")
           => /\ wpc'[r] = "spacy"
              /\ results'[r].regex # Unset
              /\ ~outer'[r] /\ response'[r] = Unset
        /\ (wpc[r] = "spacy" /\ wpc'[r] # "spacy")
           => /\ wpc'[r] = "cleanup"
              /\ results'[r].spacy # Unset
              /\ results'[r].regex = results[r].regex
              /\ ~outer'[r] /\ response'[r] = Unset
        /\ (wpc[r] \in {"cleanup", "respond"})
           => /\ results'[r] = results[r]
              /\ ~outer'[r]
        /\ (wpc[r] = "respond" /\ wpc'[r] = "done")
           => /\ response'[r].kind = IF route[r] = "upload" THEN "render" ELSE "json"
              /\ response'[r].status = 200
              /\ response'[r].body.regex = results[r].regex
              /\ response'[r].body.spacy = results[r].spacy
              /\ results[r].regex # Unset /\ results[r].spacy # Unset

C4_PipelineFailuresAreIsolated == [][C4_Step]_vars

\* the response of a request that went through both pipelines
NormalResponse(r) ==
    IF route[r] = "upload" THEN Render("results.html", results[r])
    ELSE Json(results[r], 200)

\* a response that carries the entry of a regex pipeline that raised next to
\* an entry of the entity pipeline, and one that carries a regex record next
\* to the entry of an entity pipeline that raised
C4_Witness ==
    /\ \E r \in Reqs :
          /\ wpc[r] = "done" /\ response[r] = NormalResponse(r)
          /\ IsRaisedEntry(r, results[r].regex)
          /\ results[r].spacy # Unset
    /\ \E r \in Reqs :
          /\ wpc[r] = "done" /\ response[r] = NormalResponse(r)
          /\ IsRaisedEntry(r, results[r].spacy)
          /\ results[r].regex.tag \in {"record", "formatted"}

\* C5: in both handlers, on every path that has saved the uploaded file, a
\* deletion of the file is attempted before the response is returned,
\* whatever the steps after the save did, and a failing deletion does not
\* change the response.
C5_DeletionAlwaysAttempted ==
    \A r \in Reqs :
        (saved[r] /\ wpc[r] = "done")
        => /\ removal[r] \in {"removed", "failed"}
           /\ removal[r] = "failed" => response[r] = NormalResponse(r)

\* the request has no 'file' part, or a file whose name has no allowed
\* extension
UploadLevelError(r) ==
    ~request[r].has_file \/ ~allowed_file(request[r].filename)

\* no pipeline has run for the request and it has saved no file
NothingRun(r) ==
    /\ ~saved[r]
    /\ results[r].regex = Unset /\ results[r].spacy = Unset
    /\ removal[r] = "none"

\* C11: a POST /api/upload with no 'file' part or with a file name that has
\* no allowed extension gets status 400, runs no pipeline and saves no file;
\* a request whose file was saved gets status 200 whatever the two pipelines
\* did; an exception outside the two inner try blocks (the save fails) gets
\* status 500.
C11_ApiStatusCodes ==
    \A r \in Reqs :
        (route[r] = "api" /\ wpc[r] = "done")
        => /\ response[r].kind = "json"
           /\ UploadLevelError(r)
                 => response[r].status = 400 /\ NothingRun(r) /\ ~outer[r]
           /\ saved[r] => response[r].status = 200 /\ ~outer[r]
           /\ outer[r] => response[r].status = 500 /\ NothingRun(r)
           /\ response[r].status \in {200, 400, 500}

\* one API request answered 400 for its file name, and one answered 200
\* although its regex pipeline raised and its entity pipeline returned None
C11_Witness ==
    /\ \E r \in Reqs :
          /\ route[r] = "api" /\ wpc[r] = "done"
          /\ request[r].has_file /\ ~allowed_file(request[r].filename)
          /\ response[r].status = 400
    /\ \E r \in Reqs :
          /\ route[r] = "api" /\ wpc[r] = "done" /\ saved[r]
          /\ response[r].status = 200
          /\ IsErrorEntry(results[r].regex)
          /\ results[r].spacy = None

\* the user errors of upload_file: no 'file' part, an empty file name, a file
\* name with no allowed extension
UserError(r) ==
    \/ ~request[r].has_file
    \/ request[r].filename = <<>>
    \/ ~allowed_file(request[r].filename)

\* C15: in POST /upload, every user error (no 'file' part, empty file name,
\* disallowed extension) sets a flash message and redirects the client to
\* the upload form, the page of GET /, with no file saved and no pipeline
\* run.
C15_UserErrorsRedirectToForm ==
    \A r \in Reqs :
        (route[r] = "upload" /\ wpc[r] = "done" /\ UserError(r))
        => /\ response[r].kind = "redirect"
           /\ response[r].to = url_for("index")
           /\ Len(flashes[r]) = 1
           /\ NothingRun(r) /\ ~outer[r]

\* request r has saved its file and has not yet attempted its cleanup
BetweenSaveAndCleanup(r) ==
    saved[r] /\ wpc[r] \in {"getsize", "regex", "spacy", "cleanup"}

\* C16: when two upload requests run with interleaved steps, also when their
\* file names secure to the same name, then from a request's save until its
\* own cleanup the file at its path is present and holds what this request
\* saved, so that its two pipelines read its own content; no step of the
\* other request changes it.
C16_RequestsSeeTheirOwnFile ==
    \A r \in Reqs :
        BetweenSaveAndCleanup(r) => uploads[file_path[r]] = request[r].body

-----------------------------------------------------------------------------
(* The skills database of FixedResumeParser                                *)

\* the built-in list
DefaultSkills ==
    << <<"p", "y", "t", "h", "o", "n">>,
       <<"j", "a", "v", "a">>,
       <<"j", "a", "v", "a", "s", "c", "r", "i", "p", "t">>,
       <<"r", "e", "a", "c", "t">>,
       <<"a", "n", "g", "u", "l", "a", "r">>,
       <<"v", "u", "e">>,
       <<"n", "o", "d", "e", ".", "j", "s">>,
       <<"d", "j", "a", "n", "g", "o">>,
       <<"f", "l", "a", "s", "k">>,
       <<"s", "p", "r", "i", "n", "g">>,
       <<"e", "x", "p", "r", "e", "s", "s">>,
       <<"d", "o", "c", "k", "e", "r">>,
       <<"k", "u", "b", "e", "r", "n", "e", "t", "e", "s">>,
       <<"a", "w", "s">>,
       <<"a", "z", "u", "r", "e">>,
       <<"g", "c", "p">>,
       <<"m", "o", "n", "g", "o", "d", "b">>,
       <<"p", "o", "s", "t", "g", "r", "e", "s", "q", "l">>,
       <<"m", "y", "s", "q", "l">>,
       <<"r", "e", "d", "i", "s">>,
       <<"m", "a", "c", "h", "i", "n", "e", " ", "l", "e", "a", "r", "n", "i", "n", "g">>,
       <<"d", "e", "e", "p", " ", "l", "e", "a", "r", "n", "i", "n", "g">>,
       <<"d", "a", "t", "a", " ", "s", "c", "i", "e", "n", "c", "e">>,
       <<"a", "i">>,
       <<"m", "l">>,
       <<"t", "e", "n", "s", "o", "r", "f", "l", "o", "w">>,
       <<"p", "y", "t", "o", "r", "c", "h">>,
       <<"s", "c", "i", "k", "i", "t", "-", "l", "e", "a", "r", "n">>,
       <<"p", "a", "n", "d", "a", "s">>,
       <<"n", "u", "m", "p", "y">>,
       <<"g", "i", "t">>,
       <<"j", "e", "n", "k", "i", "n", "s">>,
       <<"c", "i", "/", "c", "d">>,
       <<"a", "g", "i", "l", "e">>,
       <<"s", "c", "r", "u", "m">>,
       <<"r", "e", "s", "t", " ", "a", "p", "i">>,
       <<"g", "r", "a", "p", "h", "q", "l">> >>

F_skills_csv == <<"s", "k", "i", "l", "l", "s", ".", "c", "s", "v">>
C_skill == <<"s", "k", "i", "l", "l">>
C_Skill == <<"S", "k", "i", "l", "l">>
C_name == <<"n", "a", "m", "e">>
C_level == <<"l", "e", "v", "e", "l">>
V_Python == <<"P", "y", "t", "h", "o", "n">>
V_AWS == <<"A", "W", "S">>
V_sql == <<"s", "q", "l">>
V_RestApi == <<"R", "E", "S", "T", " ", "A", "P", "I">>

Range(f) == {f[x] : x \in DOMAIN f}

\* the skills_file argument: None, '' or a path
SkillsFiles == {None, Str(<<>>), Str(F_skills_csv)}

\* the headers of the tables, and the cells of a column
Headers == {<<C_skill>>, <<C_Skill>>, <<C_name>>, <<C_name, C_skill>>,
            <<C_name, C_level>>}
Cells == {V_Python, V_AWS, V_sql, V_RestApi}
MaxRows == 2

\* a column read by pandas: strings (dtype object) or integers
Columns ==
    {[dtype |-> "object", values |-> v] :
        v \in UNION {[1..n -> Cells] : n \in 0..MaxRows}}
    \cup {[dtype |-> "int64", values |-> <<1, 2>>]}

\* what is at the path: nothing, something pd.read_csv raises on (an empty
\* file, a directory, bytes that do not parse), or a table
SkillsCsvs ==
    {[st |-> "missing"], [st |-> "unreadable"]}
    \cup {[st |-> "table", columns |-> h, data |-> d] :
            h \in Headers, d \in Columns}

\* FixedResumeParser._load_skills_database(skills_file), every column of
\* the table holding the same cells
load_skills_database(file, csv) ==
    LET exists == csv.st # "missing"
        \* df['skill'].str.lower().tolist(); .str raises on a column that is
        \* not of strings
        read ==
            IF csv.st = "unreadable" THEN Raise("read_csv")
            ELSE IF C_skill \in Range(csv.columns)
            THEN IF csv.data.dtype = "object"
                 THEN Return(List([k \in 1..Len(csv.data.values) |->
                                     Lower(csv.data.values[k])]), <<>>)
                 ELSE Raise("Can only use .str accessor with string values")
            ELSE Return(List(<<>>), <<>>)
    IN  IF file # None /\ file.items # <<>> /\ exists /\ read.kind = "return"
        THEN read.val
        ELSE List(DefaultSkills)

DbStart == skills_db = Unset

DbInit ==
    /\ skills_file \in SkillsFiles
    /\ skills_csv \in SkillsCsvs
    /\ DbStart
    /\ OthersStart({"db"})

\* self.skills_db = self._load_skills_database(skills_file)
LoadSkillsDatabase ==
    /\ skills_db = Unset
    /\ skills_db' = load_skills_database(skills_file, skills_csv)
    /\ UNCHANGED <<nonDbVars, skills_file, skills_csv>>

DbNext == LoadSkillsDatabase

DbSpec == DbInit /\ [][DbNext]_vars

\* C6: _load_skills_database returns the built-in default list when no
\* skills file is given, when the file does not exist, when it cannot be
\* read as a table, and when the table has no 'skill' column; when the file
\* is readable and has a 'skill' column (of strings) it returns that
\* column's values lowercased.
C6_DefaultUnlessSkillColumn ==
    skills_db # Unset =>
        LET given == skills_file # None /\ skills_file.items # <<>>
            readable == given /\ skills_csv.st = "table"
            has_column == readable /\ C_skill \in Range(skills_csv.columns)
        IN  /\ ~has_column => skills_db = List(DefaultSkills)
            /\ (has_column /\ skills_csv.data.dtype = "object")
               => /\ skills_db.tag = "list"
                  /\ Len(skills_db.items) = Len(skills_csv.data.values)
                  /\ \A k \in 1..Len(skills_db.items) :
                        skills_db.items[k] = Lower(skills_csv.data.values[k])

-----------------------------------------------------------------------------
(* The name heuristics                                                     *)

N_JOHN_SMITH == <<"J", "O", "H", "N", " ", "S", "M", "I", "T", "H">>
N_Padded == <<" ", " ", "J", "O", "H", "N", " ", "S", "M", "I", "T", "H", " ">>
N_PHONE == <<"P", "H", "O", "N", "E", " ", "N", "U", "M", "B", "E", "R">>
N_EMAIL == <<"E", "M", "A", "I", "L", " ", "M", "E">>
N_STREET == <<"M", "A", "I", "N", " ", "S", "T", "R", "E", "E", "T">>
N_AVENUE == <<"P", "A", "R", "K", " ", "A", "V", "E", "N", "U", "E">>
N_Jane == <<"J", "a", "n", "e", " ", "D", "o", "e">>
N_lower == <<"j", "a", "n", "e", " ", "d", "o", "e">>
N_at == <<"A", "@", "B", ".", "C", "O">>
N_ROOM == <<"R", "O", "O", "M", " ", "5">>
N_Dashes == <<"-", " ", "-">>
W_at == <<"@">>
W_phone == <<"p", "h", "o", "n", "e">>
W_email == <<"e", "m", "a", "i", "l">>

\* the word lists of _extract_name_with_spacy: strategy 1, strategy 2
address_noise ==
    { <<"s", "t", "r", "e", "e", "t">>,
      <<"r", "o", "a", "d">>,
      <<"a", "v", "e", "n", "u", "e">>,
      <<"d", "r", "i", "v", "e">>,
      <<"l", "a", "n", "e">>,
      <<"h", "e", "r", "i", "t", "a", "g", "e">>,
      <<"a", "p", "a", "r", "t", "m", "e", "n", "t">>,
      <<"b", "u", "i", "l", "d", "i", "n", "g">> }
entity_noise ==
    { <<"h", "e", "r", "i", "t", "a", "g", "e">>,
      <<"s", "o", "c", "i", "e", "t", "y">>,
      <<"a", "p", "a", "r", "t", "m", "e", "n", "t">>,
      <<"b", "u", "i", "l", "d", "i", "n", "g">>,
      <<"s", "t", "r", "e", "e", "t">>,
      <<"r", "o", "a", "d">> }

IsCased(c) == IsUpperChar(c) \/ IsLowerChar(c)

\* any(char.isdigit() for char in s)
HasDigit(s) == \E k \in 1..Len(s) : s[k] \in Digits

\* s.isupper(): a cased character, and no lowercase one
IsUpperStr(s) ==
    /\ \E k \in 1..Len(s) : IsCased(s[k])
    /\ \A k \in 1..Len(s) : ~IsLowerChar(s[k])

\* s.istitle(): uppercase characters only after uncased ones, lowercase
\* characters only after cased ones, and a cased character
IsTitleStr(s) ==
    /\ \E k \in 1..Len(s) : IsCased(s[k])
    /\ \A k \in 1..Len(s) :
          /\ IsUpperChar(s[k]) => (k = 1 \/ ~IsCased(s[k - 1]))
          /\ IsLowerChar(s[k]) => (k > 1 /\ IsCased(s[k - 1]))

\* w.isalpha()
IsAlphaStr(w) == w # <<>> /\ \A k \in 1..Len(w) : IsCased(w[k])

\* all(word[0].isupper() for word in words if word.isalpha())
AlphaWordsCapitalized(words) ==
    \A k \in 1..Len(words) : IsAlphaStr(words[k]) => IsUpperChar(words[k][1])

\* any(word.lower() in noise for word in words)
HasNoiseWord(words, noise) == \E k \in 1..Len(words) : Lower(words[k]) \in noise

NameLines == 5
FixedNameLines == 8
FallbackNameLines == 5
NameWordsMin == 2
NameWordsMax == 4
NerChars == 2000

\* the condition of extract_name on a trimmed line
RegexNameOk(line) ==
    /\ line # <<>>
    /\ Len(Words(line)) <= NameWordsMax
    /\ ~Contains(line, W_at)
    /\ ~HasDigit(line)

\* extract_name scanning from the second line on
extract_name_from_second(t, not_found) ==
    LET ls == Take(SplitLines(t), NameLines)
        ok == {k \in 2..Len(ls) : RegexNameOk(Strip(ls[k]))}
    IN  IF ok = {} THEN not_found
        ELSE Str(Strip(ls[CHOOSE k \in ok : \A j \in ok : k <= j]))

\* RegexResumeParser.extract_name(text) and app.py's extract_name(text),
\* which differ in what they return when no line qualifies
extract_name(t, not_found) ==
    LET ls == Take(SplitLines(t), NameLines)
        ok == {k \in 1..Len(ls) : RegexNameOk(Strip(ls[k]))}
    IN  IF ok = {} THEN not_found
        ELSE Str(Strip(ls[CHOOSE k \in ok : \A j \in ok : k <= j]))

\* strategy 1 of _extract_name_with_spacy on a trimmed line
Strategy1Ok(line) ==
    LET words == Words(line)
    IN  /\ ~(line = <<>> \/ Contains(line, W_at)
               \/ Contains(Lower(line), W_phone)
               \/ Contains(Lower(line), W_email))
        /\ NameWordsMin <= Len(words) /\ Len(words) <= NameWordsMax
        /\ ~HasDigit(line)
        /\ ~HasNoiseWord(words, address_noise)
        /\ IsUpperStr(line) \/ IsTitleStr(line) \/ AlphaWordsCapitalized(words)

\* strategy 2 on the trimmed text of a PERSON entity
Strategy2Ok(name_text) ==
    LET words == Words(name_text)
    IN  /\ NameWordsMin <= Len(words) /\ Len(words) <= NameWordsMax
        /\ ~HasNoiseWord(words, entity_noise)
        /\ ~HasDigit(name_text)

\* strategy 3 on a trimmed line
Strategy3Ok(line) ==
    /\ line # <<>>
    /\ NameWordsMin <= Len(Words(line)) /\ Len(Words(line)) <= NameWordsMax
    /\ ~Contains(line, W_at)
    /\ ~HasDigit(line)
    /\ AlphaWordsCapitalized(Words(line))

\* the character offset at which line k of ls starts
LineStart(ls, k) ==
    LET RECURSIVE Off(_)
        Off(j) == IF j = 1 THEN 0 ELSE Off(j - 1) + Len(ls[j - 1]) + 1
    IN  Off(k)

\* FixedResumeParser._extract_name_with_spacy(text); ents are the lines
\* the entity recognizer labels PERSON (each span a whole line) when it
\* is given text[:2000]
extract_name_with_spacy(t, ents) ==
    LET ls == SplitLines(t)
        s1 == {k \in 1..Min(FixedNameLines, Len(ls)) : Strategy1Ok(Strip(ls[k]))}
        s2 == {k \in ents :
                 /\ k <= Len(ls)
                 /\ LineStart(ls, k) + Len(ls[k]) <= NerChars
                 /\ Strategy2Ok(Strip(ls[k]))}
        s3 == {k \in 1..Min(FallbackNameLines, Len(ls)) : Strategy3Ok(Strip(ls[k]))}
        First(S) == CHOOSE k \in S : \A j \in S : k <= j
    IN  IF s1 # {} THEN Str(Strip(ls[First(s1)]))
        ELSE IF s2 # {} THEN Str(Strip(ls[First(s2)]))
        ELSE IF s3 # {} THEN Str(Strip(ls[First(s3)]))
        ELSE None

NameFns == {"regex_name", "app_name", "fixed_name"}

NameOf(f, t, ents) ==
    CASE f = "regex_name" -> extract_name(t, None)
      [] f = "app_name" -> extract_name(t, Str(NotFoundStr))
      [] f = "fixed_name" -> extract_name_with_spacy(t, ents)

\* the lines the texts are made of
NameCatalogue ==
    {N_Padded, N_PHONE, N_EMAIL, N_STREET, N_AVENUE, N_Jane, N_lower, N_at,
     N_ROOM, N_Dashes, <<>>}

\* texts of up to MaxNameLines catalogue lines, and texts in which MaxSkip
\* or fewer lines that no strategy accepts precede a name
MaxNameLines == 2
MaxSkip == 8
NameTexts ==
    {JoinLines(ls) : ls \in UNION {[1..k -> NameCatalogue] : k \in 0..MaxNameLines}}
    \cup {JoinLines([k \in 1..n |-> N_at] \o <<N_Jane>>) : n \in 0..MaxSkip}

\* the sets of lines the entity recognizer may label PERSON
PersonSets(t) ==
    LET n == Len(SplitLines(t))
    IN  {S \in SUBSET (1..Min(n, MaxNameLines + 1)) : Cardinality(S) <= 2}

NameStart == name_ret = [f \in NameFns |-> Unset]

NameInit ==
    /\ text \in NameTexts
    /\ persons \in PersonSets(text)
    /\ NameStart
    /\ OthersStart({"name", "text"})

\* one call of a name extractor on the text
CallName(f) ==
    /\ name_ret[f] = Unset
    /\ name_ret' = [name_ret EXCEPT ![f] = NameOf(f, text, persons)]
    /\ UNCHANGED <<nonNameVars, text, persons>>

NameNext == \E f \in NameFns : CallName(f)

NameSpec == NameInit /\ [][NameNext]_vars

\* the first line of the text, trimmed
FirstLine == Strip(SplitLines(text)[1])

\* the first line is fully uppercase, has exactly 2 words, no digit, no '@'
UpperTwoWordFirstLine ==
    /\ IsUpperStr(FirstLine)
    /\ Len(Words(FirstLine)) = 2
    /\ ~HasDigit(FirstLine)
    /\ ~Contains(FirstLine, W_at)

\* C7, as stated: for every text whose first line is fully uppercase, has
\* exactly 2 words, no digit and no '@', extract_name of both regex
\* variants and _extract_name_with_spacy return that first line, trimmed.
C7_Stated ==
    UpperTwoWordFirstLine =>
        \A f \in NameFns : name_ret[f] # Unset => name_ret[f] = Str(FirstLine)

\* C7, amended: for every text whose first line is fully uppercase, has
\* exactly 2 words, no digit and no '@', and neither contains 'phone' or
\* 'email' (in any case) nor has an address-noise word (street, road,
\* avenue, drive, lane, heritage, apartment, building), the three name
\* extractors return that first line, trimmed.
C7_UpperFirstLineIsTheName ==
    ( /\ UpperTwoWordFirstLine
      /\ ~Contains(Lower(FirstLine), W_phone)
      /\ ~Contains(Lower(FirstLine), W_email)
      /\ ~HasNoiseWord(Words(FirstLine), address_noise) )
    => \A f \in NameFns : name_ret[f] # Unset => name_ret[f] = Str(FirstLine)

\* the three extractors have returned the padded uppercase first line,
\* trimmed, of a text whose second line also looks like a name
C7_Witness ==
    /\ UpperTwoWordFirstLine
    /\ SplitLines(text)[1] = N_Padded
    /\ Len(SplitLines(text)) = 2 /\ SplitLines(text)[2] = N_Jane
    /\ \A f \in NameFns : name_ret[f] = Str(N_JOHN_SMITH)

\* C17: whichever of its three strategies produces it, a name returned by
\* _extract_name_with_spacy has no address-noise word of strategy 1 (street,
\* road, avenue, drive, lane, heritage, apartment, building, in any case)
\* among its words, and does not contain 'phone' or 'email'.
C17_NameHasNoNoise ==
    name_ret["fixed_name"].tag = "str"
    => LET name == name_ret["fixed_name"].items
       IN  /\ ~HasNoiseWord(Words(name), address_noise)
           /\ ~Contains(Lower(name), W_phone)
           /\ ~Contains(Lower(name), W_email)

-----------------------------------------------------------------------------
(* The entity pipeline's skills and experience                             *)

\* the SKILL patterns of _setup_patterns: one token, two tokens
skill_tokens ==
    { <<"p", "y", "t", "h", "o", "n">>,
      <<"j", "a", "v", "a">>,
      <<"j", "a", "v", "a", "s", "c", "r", "i", "p", "t">>,
      <<"r", "e", "a", "c", "t">>,
      <<"a", "n", "g", "u", "l", "a", "r">>,
      <<"n", "o", "d", "e", ".", "j", "s">>,
      <<"d", "o", "c", "k", "e", "r">>,
      <<"k", "u", "b", "e", "r", "n", "e", "t", "e", "s">> }
skill_token_pairs ==
    { <<<<"m", "a", "c", "h", "i", "n", "e">>, <<"l", "e", "a", "r", "n", "i", "n", "g">>>>,
      <<<<"d", "a", "t", "a">>, <<"s", "c", "i", "e", "n", "c", "e">>>>,
      <<<<"a", "r", "t", "i", "f", "i", "c", "i", "a", "l">>, <<"i", "n", "t", "e", "l", "l", "i", "g", "e", "n", "c", "e">>>> }
tech_words ==
    { <<"j", "s">>,
      <<"s", "q", "l">>,
      <<"a", "p", "i">>,
      <<"f", "r", "a", "m", "e", "w", "o", "r", "k">>,
      <<"l", "i", "b", "r", "a", "r", "y">> }
school_keywords ==
    { <<"u", "n", "i", "v", "e", "r", "s", "i", "t", "y">>,
      <<"c", "o", "l", "l", "e", "g", "e">>,
      <<"s", "c", "h", "o", "o", "l">>,
      <<"i", "n", "s", "t", "i", "t", "u", "t", "e">> }
job_title_keywords ==
    { <<"e", "n", "g", "i", "n", "e", "e", "r">>,
      <<"d", "e", "v", "e", "l", "o", "p", "e", "r">>,
      <<"m", "a", "n", "a", "g", "e", "r">>,
      <<"a", "n", "a", "l", "y", "s", "t">>,
      <<"c", "o", "n", "s", "u", "l", "t", "a", "n", "t">>,
      <<"s", "p", "e", "c", "i", "a", "l", "i", "s", "t">>,
      <<"c", "o", "o", "r", "d", "i", "n", "a", "t", "o", "r">>,
      <<"d", "i", "r", "e", "c", "t", "o", "r">>,
      <<"l", "e", "a", "d">>,
      <<"s", "e", "n", "i", "o", "r">>,
      <<"j", "u", "n", "i", "o", "r">>,
      <<"i", "n", "t", "e", "r", "n">>,
      <<"a", "s", "s", "o", "c", "i", "a", "t", "e">>,
      <<"a", "r", "c", "h", "i", "t", "e", "c", "t">>,
      <<"d", "e", "s", "i", "g", "n", "e", "r">> }

FixedSkillsCap == 10
CompaniesCap == 5
PositionsCap == 3
TechEntWords == 2

\* s.title(): a cased character is uppercased after an uncased one (or at
\* the start) and lowercased after a cased one
UpperTable ==
    [c \in {LowerChars[k] : k \in 1..Len(LowerChars)} |->
        UpperChars[CHOOSE k \in 1..Len(LowerChars) : LowerChars[k] = c]]
UpperChar(c) == IF IsLowerChar(c) THEN UpperTable[c] ELSE c
Title(s) ==
    [k \in 1..Len(s) |->
        IF k = 1 \/ ~IsCased(s[k - 1]) THEN UpperChar(s[k]) ELSE LowerChar(s[k])]

\* the elements of l, each at its first occurrence
RECURSIVE Dedup(_)
Dedup(l) ==
    IF l = <<>> THEN <<>>
    ELSE LET front == Dedup(SubSeq(l, 1, Len(l) - 1))
             last == l[Len(l)]
         IN  IF last \in Range(front) THEN front ELSE Append(front, last)

\* l from its (k + 1)-th element on, then its first k elements
Rotate(l, k) == SubSeq(l, k + 1, Len(l)) \o SubSeq(l, 1, k)

\* the orders in which list(set(l)) may hold the distinct elements of l
SetOrders(l) == {Rotate(Dedup(l), k) : k \in 0..(Len(Dedup(l)) - 1)}

A_at == <<"a", "t">>

\* the entities the recognizer finds in a line "<skill> <title> at
\* <company>": the company, labelled ORG, when it is working
LineEnts(line, rec) ==
    LET ws == Words(line)
        at == {k \in 1..Len(ws) : ws[k] = A_at}
    IN  IF rec = "orgs" /\ at # {} /\ (CHOOSE k \in at : TRUE) < Len(ws)
        THEN <<[label_ |-> "ORG",
                text |-> JoinWith(SubSeq(ws, (CHOOSE k \in at : TRUE) + 1, Len(ws)),
                                  <<" ">>)]>>
        ELSE <<>>

RECURSIVE ConcatAll(_)
ConcatAll(ls) == IF ls = <<>> THEN <<>> ELSE Head(ls) \o ConcatAll(Tail(ls))

\* doc.ents of self.nlp(text)
DocEnts(t, rec) ==
    LET ls == SplitLines(t)
    IN  ConcatAll([k \in 1..Len(ls) |-> LineEnts(ls[k], rec)])

\* the spans the matcher reports for SKILL, the tokens of a line being its
\* words
LineMatches(line) ==
    LET ws == Words(line)
        At(k) == (IF Lower(ws[k]) \in skill_tokens THEN <<ws[k]>> ELSE <<>>)
                 \o (IF k < Len(ws) /\ <<Lower(ws[k]), Lower(ws[k + 1])>> \in skill_token_pairs
                     THEN <<ws[k] \o <<" ">> \o ws[k + 1]>> ELSE <<>>)
    IN  ConcatAll([k \in 1..Len(ws) |-> At(k)])

SkillMatches(t) ==
    LET ls == SplitLines(t)
    IN  ConcatAll([k \in 1..Len(ls) |-> LineMatches(ls[k])])

\* [sent.text for sent in doc.sents]: the segmenter splits at the line
\* ends, or does not split
DocSents(t, mode) ==
    IF mode = "lines" THEN SplitLines(t) ELSE <<t>>

\* skill.title() for the skills of the database that text_lower contains
SelectSkillHits(db, text_lower) ==
    ConcatAll([k \in 1..Len(db) |->
                 IF Contains(text_lower, db[k]) THEN <<Title(db[k])>> ELSE <<>>])

\* found_skills of _extract_skills_with_spacy
FoundSkills(t, db, rec) ==
    LET ents == DocEnts(t, rec)
        tech == ConcatAll([k \in 1..Len(ents) |->
                   IF /\ ents[k].label_ \in {"PRODUCT", "ORG"}
                      /\ Len(Words(ents[k].text)) <= TechEntWords
                      /\ \E w \in tech_words : Contains(Lower(ents[k].text), w)
                   THEN <<ents[k].text>> ELSE <<>>])
    IN  SelectSkillHits(db, Lower(t)) \o SkillMatches(t) \o tech

\* companies of _extract_experience_with_spacy
Companies(t, rec) ==
    LET ents == DocEnts(t, rec)
    IN  ConcatAll([k \in 1..Len(ents) |->
           IF /\ ents[k].label_ = "ORG"
              /\ ~\E w \in school_keywords : Contains(Lower(ents[k].text), w)
           THEN <<ents[k].text>> ELSE <<>>])

\* positions of _extract_experience_with_spacy: the loop over the
\* sentences, left when it holds 3
RECURSIVE Positions(_, _)
Positions(sents, acc) ==
    IF sents = <<>> \/ Len(acc) >= PositionsCap THEN acc
    ELSE IF \E w \in job_title_keywords : Contains(Lower(Head(sents)), w)
    THEN Positions(Tail(sents), Append(acc, Strip(Head(sents))))
    ELSE Positions(Tail(sents), acc)

\* the experience dict
Experience(companies, positions) ==
    [tag |-> "dict",
     companies |-> IF companies # <<>> THEN List(Take(companies, CompaniesCap)) ELSE None,
     positions |-> IF positions # <<>> THEN List(Take(positions, PositionsCap)) ELSE None]

K_1 == <<"J", "a", "v", "a", "S", "c", "r", "i", "p", "t", " ", "l", "e", "a", "d", " ", "a", "t", " ", "A", "c", "m", "e">>
K_2 == <<"P", "y", "t", "h", "o", "n", " ", "i", "n", "t", "e", "r", "n", " ", "a", "t", " ", "G", "l", "o", "b", "e", "x">>
K_3 == <<"N", "o", "d", "e", ".", "j", "s", " ", "s", "e", "n", "i", "o", "r", " ", "a", "t", " ", "O", "h", "i", "o", " ", "C", "o", "l", "l", "e", "g", "e">>
K_4 == <<"M", "y", "S", "Q", "L", " ", "j", "u", "n", "i", "o", "r", " ", "a", "t", " ", "S", "Q", "L", " ", "L", "a", "b", "s">>
K_5 == <<"D", "o", "c", "k", "e", "r", " ", "l", "e", "a", "d", " ", "a", "t", " ", "H", "o", "o", "l", "i">>
K_6 == <<"A", "W", "S", " ", "i", "n", "t", "e", "r", "n", " ", "a", "t", " ", "U", "m", "b", "r", "e", "l", "l", "a">>
K_7 == <<"R", "e", "d", "i", "s", " ", "s", "e", "n", "i", "o", "r", " ", "a", "t", " ", "W", "a", "y", "n", "e">>
K_8 == <<"F", "l", "a", "s", "k", " ", "j", "u", "n", "i", "o", "r", " ", "a", "t", " ", "T", "y", "r", "e", "l", "l">>
K_9 == <<"V", "u", "e", " ", "l", "e", "a", "d", " ", "a", "t", " ", "S", "o", "y", "l", "e", "n", "t">>
K_10 == <<"D", "j", "a", "n", "g", "o", " ", "i", "n", "t", "e", "r", "n", " ", "a", "t", " ", "I", "n", "i", "t", "e", "c", "h">>

CapLines == <<K_1, K_2, K_3, K_4, K_5, K_6, K_7, K_8, K_9, K_10>>

\* texts of a section header, up to MaxCapRun lines that name a skill, a
\* job title and a company, and a closing header
MaxCapRun == 7
CapTexts ==
    {JoinLines(<<h>> \o SubSeq(CapLines, 1, Min(n, Len(CapLines))) \o <<L_Projects>>) :
        h \in {L_Skills, L_EDUCATION, L_Experience}, n \in 0..MaxCapRun}

\* what the library makes of a text: the recognizer labels the companies
\* and the segmenter splits at the line ends, or neither
Docs == {[ner |-> "orgs", sent_mode |-> "lines"],
         [ner |-> "nothing", sent_mode |-> "whole"]}

EntStart ==
    /\ epc = "idle"
    /\ ent_skills = Unset
    /\ ent_experience = Unset

CapInit ==
    /\ text \in CapTexts
    /\ SegStart
    /\ skills_file = None /\ skills_csv = Unset
    /\ skills_db = load_skills_database(skills_file, skills_csv)
    /\ \E d \in Docs : ner = d.ner /\ sent_mode = d.sent_mode
    /\ EntStart
    /\ OthersStart({"seg", "db", "ent", "text"})

\* 'skills': self._extract_skills_with_spacy(text)
ExtractSkillsWithSpacy ==
    /\ epc = "idle"
    /\ LET found_skills == FoundSkills(text, skills_db.items, ner)
       IN  IF found_skills = <<>> THEN ent_skills' = None
           ELSE \E order \in SetOrders(found_skills) :
                   ent_skills' = List(Take(order, FixedSkillsCap))
    /\ epc' = "skills"
    /\ UNCHANGED <<nonEntVars, text, ner, sent_mode, ent_experience>>

\* 'experience': self._extract_experience_with_spacy(text)
ExtractExperienceWithSpacy ==
    /\ epc = "skills"
    /\ ent_experience' =
          Experience(Companies(text, ner),
                     Positions(DocSents(text, sent_mode), <<>>))
    /\ epc' = "experience"
    /\ UNCHANGED <<nonEntVars, text, ner, sent_mode, ent_skills>>

EntNext ==
    \/ ExtractSkillsWithSpacy
    \/ ExtractExperienceWithSpacy

CapNext ==
    \/ SegNext
    \/ EntNext

CapSpec == CapInit /\ [][CapNext]_vars

\* C8: the section lists respect the caps: a list returned by a regex
\* section extractor has at most 5 (skills), 3 (education), 5 (experience)
\* entries and is the prefix, in order, of the lines the segmenter
\* captured; the entity pipeline's skills has at most 10 entries, its
\* experience.companies at most 5 and its experience.positions at most 3.
C8_SectionListsRespectCaps ==
    /\ (pc = "returned" /\ section # <<>>)
       => LET cap == CASE fn \in {"extract_skills", "app_extract_skills"} -> 5
                       [] fn \in {"extract_education", "app_extract_education"} -> 3
                       [] fn \in {"extract_experience", "app_extract_experience"} -> 5
          IN  /\ ret.tag = "list"
              /\ Len(ret.items) = Min(Len(section), cap)
              /\ ret.items = SubSeq(section, 1, Len(ret.items))
    /\ ent_skills.tag = "list" => Len(ent_skills.items) <= 10
    /\ ent_experience # Unset
       => /\ ent_experience.companies # None
             => Len(ent_experience.companies.items) <= 5
          /\ ent_experience.positions # None
             => Len(ent_experience.positions.items) <= 3

\* a regex extractor has captured more lines than its cap and returned the
\* first of them, and the entity pipeline has found more than 10 distinct
\* skills, more than 5 companies and more than 3 title sentences and kept
\* 10, 5 and 3
C8_Witness ==
    /\ pc = "returned" /\ Len(section) > Cap(fn)
    /\ ret = List(SubSeq(section, 1, Cap(fn)))
    /\ epc = "experience"
    /\ Cardinality(Range(FoundSkills(text, skills_db.items, ner))) > 10
    /\ Len(ent_skills.items) = 10
    /\ Len(Companies(text, ner)) > 5
    /\ Len(ent_experience.companies.items) = 5
    /\ Len(SplitLines(text)) > 5
    /\ sent_mode = "lines" /\ Len(ent_experience.positions.items) = 3

-----------------------------------------------------------------------------
(* The command-line programs: app.py and fixed_pyresparser.py              *)

N_resume_pdf == <<"r", "e", "s", "u", "m", "e", ".", "p", "d", "f">>
N_resume_docx == <<"r", "e", "s", "u", "m", "e", ".", "d", "o", "c", "x">>
N_Level4_pdf == <<"L", "e", "v", "e", "l", "4", "_", "S", "o", "f", "t", "w", "a", "r", "e", "_", "E", "n", "g", "i", "n", "e", "e", "r", "_", "R", "e", "s", "u", "m", "e", ".", "p", "d", "f">>
N_Level4_docx == <<"L", "e", "v", "e", "l", "4", "_", "S", "o", "f", "t", "w", "a", "r", "e", "_", "E", "n", "g", "i", "n", "e", "e", "r", "_", "R", "e", "s", "u", "m", "e", ".", "d", "o", "c", "x">>
N_Level4_1_docx == <<"L", "e", "v", "e", "l", "4", "_", "S", "o", "f", "t", "w", "a", "r", "e", "_", "E", "n", "g", "i", "n", "e", "e", "r", "_", "R", "e", "s", "u", "m", "e", " ", "(", "1", ")", ".", "d", "o", "c", "x">>

\* the candidates of the auto-discovery, in order
app_resume_files ==
    <<N_resume_pdf, N_resume_docx, N_Level4_pdf, N_Level4_docx, N_Level4_1_docx>>
fixed_resume_files ==
    <<N_resume_pdf, N_resume_docx, N_Level4_pdf, N_Level4_docx>>

\* the first candidate that exists, None if there is none
Discover(candidates, existing) ==
    LET at == {k \in 1..Len(candidates) : candidates[k] \in existing}
    IN  IF at = {} THEN None
        ELSE Str(candidates[CHOOSE k \in at : \A j \in at : k <= j])

\* what the working directory holds at a path (a relative path being
\* resolved against it)
FileAt(path) == IF path \in cwd_files THEN content ELSE MissingFile

Progs == {"app", "fixed"}
\* sys.argv[1:]: nothing, or one path
Args == {None, Str(N_cv_txt), Str(N_resume_pdf), Str(N_old_doc)}
CwdNames == {N_resume_pdf, N_resume_docx, N_Level4_1_docx, N_cv_txt}
Contents == {CorruptFile(0), TextFile(<<>>, 0), TextFile(<<" ", "\n">>, 0),
             TextFile(T_resume, 0)}

CliStart ==
    /\ cpc = "start"
    /\ cli_path = Unset
    /\ cli_data = Unset
    /\ stdout = <<>>
    /\ exit_status = Unset

CliInit ==
    /\ prog \in Progs
    /\ argv \in Args
    /\ cwd_files \in SUBSET CwdNames
    /\ content \in Contents
    /\ model_ok \in BOOLEAN
    /\ CliStart
    /\ OthersStart({"cli", "model"})

\* the process ends with the status
Exit(status) ==
    /\ exit_status' = status
    /\ cpc' = "exited"

\* app.py: resume_path = get_resume_file()
AppGetResumeFile ==
    /\ prog = "app" /\ cpc = "start"
    /\ IF argv # None
       THEN IF FileAt(argv.items).st = "missing"
            THEN /\ stdout' = Append(stdout, <<"Error: File '", argv.items, "' not found.">>)
                 /\ Exit(1)
                 /\ UNCHANGED cli_path
            ELSE IF Lower(SplitExt(argv.items)) \notin {X_pdf, X_docx, X_doc}
            THEN /\ stdout' = stdout \o
                       << <<"Error: Unsupported file format '",
                            Lower(SplitExt(argv.items)), "'.">>,
                          "Supported formats: .pdf, .docx, .doc" >>
                 /\ Exit(1)
                 /\ UNCHANGED cli_path
            ELSE /\ cli_path' = argv
                 /\ stdout' = Append(stdout, <<"Processing file: ", argv.items>>)
                 /\ cpc' = "extract"
                 /\ UNCHANGED exit_status
       ELSE LET found == Discover(app_resume_files, cwd_files)
            IN  IF found = None
                THEN /\ stdout' = Append(stdout, "Usage: python app.py <resume_file>")
                     /\ Exit(1)
                     /\ UNCHANGED cli_path
                ELSE /\ cli_path' = found
                     /\ stdout' = Append(stdout, <<"Processing file: ", found.items>>)
                     /\ cpc' = "extract"
                     /\ UNCHANGED exit_status
    /\ UNCHANGED <<nonCliVars, prog, argv, cwd_files, content, cli_data>>

\* app.py: data = extract_resume_data(resume_path)
AppExtract ==
    /\ prog = "app" /\ cpc = "extract"
    /\ LET o == app_extract_resume_data(cli_path.items, FileAt(cli_path.items))
       IN  /\ cli_data' = o.val
           /\ stdout' = stdout \o o.printed
    /\ cpc' = "print"
    /\ UNCHANGED <<nonCliVars, prog, argv, cwd_files, content, cli_path, exit_status>>

\* app.py: print the record, or "Could not parse the resume."; the script
\* ends
AppPrint ==
    /\ prog = "app" /\ cpc = "print"
    /\ stdout' = Append(stdout, IF cli_data # None THEN "RESUME PARSING RESULTS"
                                ELSE "Could not parse the resume.")
    /\ Exit(0)
    /\ UNCHANGED <<nonCliVars, prog, argv, cwd_files, content, cli_path, cli_data>>

\* fixed_pyresparser.main: the path, and the check that it exists
FixedResolve ==
    /\ prog = "fixed" /\ cpc = "start"
    /\ LET resume_path_ == IF argv # None THEN argv
                           ELSE Discover(fixed_resume_files, cwd_files)
       IN  IF resume_path_ = None
           THEN /\ stdout' = stdout \o
                      <<"Usage: python fixed_pyresparser.py <resume_file>",
                        "No resume file found for auto-discovery">>
                /\ Exit(0)
                /\ UNCHANGED cli_path
           ELSE IF FileAt(resume_path_.items).st = "missing"
           THEN /\ stdout' = Append(stdout,
                      <<"Error: File '", resume_path_.items, "' not found">>)
                /\ Exit(0)
                /\ UNCHANGED cli_path
           ELSE /\ cli_path' = resume_path_
                /\ stdout' = Append(stdout, <<"Processing: ", resume_path_.items>>)
                /\ cpc' = "construct"
                /\ UNCHANGED exit_status
    /\ UNCHANGED <<nonCliVars, prog, argv, cwd_files, content, cli_data>>

\* parser = FixedResumeParser(resume_path); an exception of spacy.load is
\* not caught: the interpreter prints the traceback and exits with 1
FixedConstruct ==
    /\ prog = "fixed" /\ cpc = "construct"
    /\ IF model_ok
       THEN /\ cpc' = "extract"
            /\ UNCHANGED <<stdout, exit_status>>
       ELSE /\ stdout' = Append(stdout, <<"Traceback", ModelError>>)
            /\ Exit(1)
    /\ UNCHANGED <<nonCliVars, prog, argv, cwd_files, content, cli_path, cli_data>>

\* data = parser.get_extracted_data()
FixedExtract ==
    /\ prog = "fixed" /\ cpc = "extract"
    /\ LET o == get_extracted_data(cli_path.items, FileAt(cli_path.items))
       IN  /\ cli_data' = o.val
           /\ stdout' = stdout \o o.printed
    /\ cpc' = "print"
    /\ UNCHANGED <<nonCliVars, prog, argv, cwd_files, content, cli_path, exit_status>>

\* main prints the record, or "Failed to extract data from resume", and
\* returns
FixedPrint ==
    /\ prog = "fixed" /\ cpc = "print"
    /\ stdout' = Append(stdout, IF cli_data # None
                                THEN "FIXED PYRESPARSER RESULTS (spaCy + NLTK)"
                                ELSE "Failed to extract data from resume")
    /\ Exit(0)
    /\ UNCHANGED <<nonCliVars, prog, argv, cwd_files, content, cli_path, cli_data>>

CliNext ==
    \/ AppGetResumeFile
    \/ AppExtract
    \/ AppPrint
    \/ FixedResolve
    \/ FixedConstruct
    \/ FixedExtract
    \/ FixedPrint

CliSpec == CliInit /\ [][CliNext]_vars

\* the path the run works on: the argument, or the discovered candidate
RunPath ==
    IF argv # None THEN argv
    ELSE Discover(IF prog = "app" THEN app_resume_files ELSE fixed_resume_files,
                  cwd_files)

\* the run ends in one of the errors: the given file is missing, its
\* extension is unsupported, text extraction fails, the text is empty
ErrorRun ==
    /\ RunPath # None
    /\ \/ FileAt(RunPath.items).st = "missing"
       \/ Lower(SplitExt(RunPath.items)) \notin {X_pdf, X_docx, X_doc}
       \/ FileAt(RunPath.items).st = "corrupt"
       \/ NoText(FileAt(RunPath.items).text)

\* C10: every run of app.py or fixed_pyresparser.py that ends in an error
\* (the given file is missing, its extension is unsupported, text
\* extraction fails, or the extracted text is empty) prints a diagnostic
\* and terminates with a non-zero exit status.
C10_ErrorsExitNonZero ==
    (cpc = "exited" /\ ErrorRun)
    => /\ stdout # <<>>
       /\ exit_status # 0

=============================================================================
